---------------------------- MODULE Spec2Model ----------------------------
(***************************************************************************)
(* Pricing calculator: the pricing catalog's lifecycle (pricing-updater,   *)
(* pricing-fetcher) and the Bill of Quantity calculation (calculateBoQ).   *)
(*                                                                         *)
(* Units.  A price is an integer number of 1e-5 USD (0.0475 USD is 4750).  *)
(* A cost is an integer number of 1e-7 USD, and every cost the calculator  *)
(* derives is a whole multiple of 100 of them, so that taking a whole      *)
(* percentage of a cost is exact.  A date is a day number.  Memory is in   *)
(* tenths of a GB.                                                         *)
(***************************************************************************)
EXTENDS Integers, Sequences, FiniteSets, TLC

VARIABLES
    today,      \* the clock: the day number new Date() gives
    ticks,      \* number of times the clock has advanced
    catalog,    \* gcp_pricing_catalog: the rows, in insertion order
    upd,        \* the updatePricingCatalog invocation in progress
    runs,       \* number of handler invocations started
    fetchResp,  \* the last response of the fetchPricing handler
    calc,       \* the calculateBoQ invocation in progress
    boqTable,   \* gcp_boq_results: the rows, in insertion order
    fn          \* a pure function of the calculator applied to drawn inputs

vars == <<today, ticks, catalog, upd, runs, fetchResp, calc, boqTable, fn>>

\* null, for a text field.  Where a row may be returned the result is a list
\* of no row or one row, and an absent machine type is the empty token list.
NULL == "NULL"
NoRow == <<>>

Max(a, b) == IF a >= b THEN a ELSE b
Min(a, b) == IF a <= b THEN a ELSE b

RECURSIVE SeqSum(_)
SeqSum(s) == IF s = <<>> THEN 0 ELSE Head(s) + SeqSum(Tail(s))

\* the rows of a table holding one more row
Append1(rows, r) == rows \o <<r>>

Range(s) == {s[i] : i \in 1..Len(s)}

-----------------------------------------------------------------------------
(* Bounds of the model *)

MaxTicks == 1        \* advances of the clock
MaxRuns == 2         \* invocations of the catalog's handlers

(* Program constants *)

RetentionDays == 90
BatchSize == 1000
NanosPerUnit == 1000000000
NanosPerPrice == 10000     \* nanos in one price unit of 1e-5 USD
PricePerUnit == 100000     \* price units of 1e-5 USD in one USD
CostPerPrice == 100        \* cost units of 1e-7 USD in one price unit
HoursPerMonth == 730
StaticIpPrice == 400       \* 0.004 USD per hour
BaseVcpuPrice == 4750      \* 0.0475 USD per vCPU-hour
MemoryPriceTenthGb == 63   \* 0.0063 USD per GB-hour, for a tenth of a GB
SpotPercent == 60
Cud1YearPercent == 25
Cud3YearPercent == 37
SudThresholdHours == 183
SudStepHours == 73
SudStepPercent == 5
SudMaxPercent == 30


-----------------------------------------------------------------------------
(***************************************************************************)
(* The raw pricing feed (billingClient.listSkus).  A description is kept   *)
(* as what the parsers read from it: kw, the keywords that occur in the    *)
(* lower-cased text as substrings; machine, the first dash-joined token    *)
(* the machine-type pattern can match, split at its dashes (<<>> if none); *)
(* vcpu and mem, the captured numbers; gpu, the captured vendor-model text.*)
(* A machine type is the list of its dash-separated tokens throughout:     *)
(* n1-standard-2 is <<"n1", "standard", "2">>.                             *)
(***************************************************************************)

Desc(kw, machine, vcpu, mem, gpu) ==
    [kw |-> kw, machine |-> machine, vcpu |-> vcpu, mem |-> mem, gpu |-> gpu]

Rate(start, units, nanos) ==
    [startUsageAmount |-> start, unitPrice |-> [units |-> units, nanos |-> nanos]]

RawSku(id, desc, regions, rates) ==
    [skuId |-> id, description |-> desc, serviceRegions |-> regions,
     pricingInfo |-> <<[tieredRates |-> rates]>>]

\* "N1 Predefined Instance Core running in Americas", 0.0475 USD, one region
SkuCore ==
    RawSku("sku-core", Desc({"instance", "core"}, <<>>, 0, 0, NULL),
           <<"us-central1">>, <<Rate(0, 0, 47500000)>>)

\* "SSD backed PD Capacity" disk, 0.17 USD, no region (global)
SkuSsd ==
    RawSku("sku-ssd", Desc({"ssd", "disk"}, <<>>, 0, 0, NULL),
           <<>>, <<Rate(0, 0, 170000000)>>)

\* a free-tier instance SKU: its price is zero
SkuFree ==
    RawSku("sku-free", Desc({"instance"}, <<"e2", "micro">>, 0, 0, NULL),
           <<"us-central1">>, <<Rate(0, 0, 0)>>)

\* a licensing SKU, which isRelevantSku excludes
SkuLicense ==
    RawSku("sku-lic", Desc({"license", "instance"}, <<>>, 0, 0, NULL),
           <<"us-central1">>, <<Rate(0, 1, 0)>>)

Feeds == { <<SkuCore, SkuSsd>>, <<SkuCore, SkuFree, SkuLicense>>, <<>> }

-----------------------------------------------------------------------------
(* pricing-updater: normalizing a raw SKU *)

RelevantKeywords ==
    {"instance", "vm", "virtual machine", "disk", "storage", "persistent", "gpu",
     "nvidia", "tesla", "ip address", "network", "memory", "cpu", "core"}

ExcludeKeywords ==
    {"license", "support", "premium support", "api", "monitoring", "logging",
     "backup", "snapshot transfer"}

isRelevantSku(sku) ==
    /\ sku.description.kw \cap RelevantKeywords # {}
    /\ sku.description.kw \cap ExcludeKeywords = {}

UpdaterFamilies ==
    {"n1", "n2", "n2d", "e2", "c2", "c2d", "m1", "m2", "f1", "g1", "a2", "t2d", "t2a"}

\* nanos / 1e9 + units, in price units (a missing part is given as 0)
UnitPrice(price) ==
    price.nanos \div NanosPerPrice + price.units * PricePerUnit

\* the info object a parser starts from (the fields the catalog row takes)
InitialInfo ==
    [machineFamily |-> NULL, machineType |-> <<>>, vcpuCount |-> NULL,
     memoryGb |-> NULL, diskType |-> NULL, gpuType |-> NULL,
     usageType |-> "OnDemand", commitmentTerm |-> NULL, networkTier |-> NULL,
     category |-> "compute"]

\* what a detection rule assigns: the fields it sets, with their values
NoPatch == <<>>

\* info with the assignments of a rule made
ApplyPatch(info, patch) ==
    [f \in DOMAIN info |-> IF f \in DOMAIN patch THEN patch[f] ELSE info[f]]

\* familyMatch: a known family prefix followed by a dash
RuleFamily(desc, families) ==
    IF desc.machine # <<>> /\ Head(desc.machine) \in families
    THEN [machineFamily |-> Head(desc.machine)]
    ELSE NoPatch

\* machineMatch: the dash-joined token that starts with a known family
RuleMachineType(desc, families) ==
    IF desc.machine # <<>> /\ Head(desc.machine) \in families
       /\ Len(desc.machine) > 1
    THEN [machineType |-> desc.machine]
    ELSE NoPatch

\* vcpu and mem are the numbers the patterns capture, 0 when they match nothing
RuleVcpu(desc) == IF desc.vcpu # 0 THEN [vcpuCount |-> desc.vcpu] ELSE NoPatch

RuleMemory(desc) == IF desc.mem # 0 THEN [memoryGb |-> desc.mem] ELSE NoPatch

\* pricing-updater, lines 309-324
RuleDisk(desc) ==
    IF "ssd" \in desc.kw THEN [diskType |-> "pd-ssd", category |-> "storage"]
    ELSE IF "balanced" \in desc.kw
    THEN [diskType |-> "pd-balanced", category |-> "storage"]
    ELSE IF "standard" \in desc.kw /\ ({"disk", "storage"} \cap desc.kw # {})
    THEN [diskType |-> "pd-standard", category |-> "storage"]
    ELSE NoPatch

\* pricing-fetcher, lines 213-223
RuleDiskFetcher(desc) ==
    IF "ssd" \in desc.kw THEN [diskType |-> "pd-ssd", category |-> "storage"]
    ELSE IF "standard" \in desc.kw
    THEN [diskType |-> "pd-standard", category |-> "storage"]
    ELSE IF "balanced" \in desc.kw
    THEN [diskType |-> "pd-balanced", category |-> "storage"]
    ELSE NoPatch

RuleGpu(desc) ==
    IF {"gpu", "nvidia", "tesla"} \cap desc.kw # {}
    THEN IF desc.gpu # NULL THEN [category |-> "gpu", gpuType |-> desc.gpu]
         ELSE [category |-> "gpu"]
    ELSE NoPatch

RuleUsage(desc) ==
    IF {"preemptible", "spot"} \cap desc.kw # {}
    THEN [usageType |-> "Preemptible"]
    ELSE NoPatch

RuleCommitment(desc) ==
    IF {"1 year", "1-year"} \cap desc.kw # {}
    THEN [commitmentTerm |-> "1-year", usageType |-> "Committed"]
    ELSE IF {"3 year", "3-year"} \cap desc.kw # {}
    THEN [commitmentTerm |-> "3-year", usageType |-> "Committed"]
    ELSE NoPatch

\* pricing-updater only, lines 359-373
RuleNetwork(desc) ==
    IF "premium" \in desc.kw THEN [networkTier |-> "premium", category |-> "network"]
    ELSE IF "standard" \in desc.kw /\ ({"network", "egress", "ip"} \cap desc.kw # {})
    THEN [networkTier |-> "standard", category |-> "network"]
    ELSE NoPatch

\* the assignments of the rules of each parser, in the order of the code
UpdaterRules(desc) ==
    << RuleFamily(desc, UpdaterFamilies), RuleMachineType(desc, UpdaterFamilies),
       RuleVcpu(desc), RuleMemory(desc), RuleDisk(desc), RuleGpu(desc),
       RuleUsage(desc), RuleCommitment(desc), RuleNetwork(desc) >>

\* info after the first n rules
RECURSIVE InfoAfter(_, _)
InfoAfter(patches, n) ==
    IF n = 0 THEN InitialInfo
    ELSE ApplyPatch(InfoAfter(patches, n - 1), patches[n])

extractMachineInfo(desc) == InfoAfter(UpdaterRules(desc), Len(UpdaterRules(desc)))

\* the catalog row of a SKU (a list of one row), or NoRow for null; now is the
\* clock when the row is built
extractPricingInfo(sku, serviceName, now) ==
    IF sku.pricingInfo = <<>> THEN NoRow
    ELSE LET rates == sku.pricingInfo[1].tieredRates IN
         IF rates = <<>> THEN NoRow
         ELSE LET pricePerUnit == UnitPrice(rates[1].unitPrice)
                  machineInfo == extractMachineInfo(sku.description)
                  tieredRates ==
                      [i \in 1..Len(rates) |->
                          [start_usage_amount |-> rates[i].startUsageAmount,
                           price_per_unit |-> UnitPrice(rates[i].unitPrice)]]
              IN  IF pricePerUnit = 0 THEN NoRow
                  ELSE << [sku_id |-> sku.skuId,
                        service_name |-> serviceName,
                        usage_type |-> machineInfo.usageType,
                        region |-> IF Len(sku.serviceRegions) > 0
                                   THEN sku.serviceRegions[1] ELSE NULL,
                        price_per_unit |-> pricePerUnit,
                        tiered_rates |-> IF Len(tieredRates) > 1
                                         THEN tieredRates ELSE <<>>,
                        machine_family |-> machineInfo.machineFamily,
                        machine_type |-> machineInfo.machineType,
                        disk_type |-> machineInfo.diskType,
                        gpu_type |-> machineInfo.gpuType,
                        effective_date |-> now,
                        is_active |-> TRUE,
                        category |-> machineInfo.category] >>

\* the rows fetchServicePricing builds from the SKUs it listed
RECURSIVE NormalizeFeed(_, _, _)
NormalizeFeed(skus, serviceName, now) ==
    IF skus = <<>> THEN <<>>
    ELSE LET sku == Head(skus)
             rest == NormalizeFeed(Tail(skus), serviceName, now)
             pricingInfo == extractPricingInfo(sku, serviceName, now)
         IN  IF isRelevantSku(sku) THEN pricingInfo \o rest ELSE rest

\* listed is FALSE when listSkus fails: the failure is caught and [] returned
fetchServicePricing(listed, skus, serviceName, now) ==
    IF listed THEN NormalizeFeed(skus, serviceName, now) ELSE <<>>

-----------------------------------------------------------------------------
(* pricing-updater: the three steps of a refresh on the catalog table *)

\* the UPDATE without its condition on effective_date
markExistingPricingInactive_AnyDate(rows, effectiveDate) ==
    [i \in 1..Len(rows) |->
        IF rows[i].is_active
        THEN [rows[i] EXCEPT !.is_active = FALSE]
        ELSE rows[i]]

\* UPDATE ... SET is_active = false WHERE is_active = true
\* AND effective_date < @effectiveDate
markExistingPricingInactive(rows, effectiveDate) ==
    [i \in 1..Len(rows) |->
        IF rows[i].is_active /\ rows[i].effective_date < effectiveDate
        THEN [rows[i] EXCEPT !.is_active = FALSE]
        ELSE rows[i]]

\* table.insert(batch): a streaming insert, which appends the rows
TableInsert(rows, batch) == rows \o batch

\* the batch of pricingData that starts at offset i (0-based)
BatchAt(pricingData, i) ==
    SubSeq(pricingData, i + 1, Min(i + BatchSize, Len(pricingData)))

\* the DELETE without its condition on is_active
cleanupOldPricingData_AnyStatus(rows, now) ==
    LET cutoffDate == now - RetentionDays
        Kept(r) == ~(r.effective_date < cutoffDate)
    IN  SelectSeq(rows, Kept)

\* DELETE ... WHERE effective_date < @cutoffDate AND is_active = false
cleanupOldPricingData(rows, now) ==
    LET cutoffDate == now - RetentionDays
        Kept(r) == ~(r.effective_date < cutoffDate /\ r.is_active = FALSE)
    IN  SelectSeq(rows, Kept)


-----------------------------------------------------------------------------
(***************************************************************************)
(* updatePricingCatalog (pricing-updater), one action per awaited step.    *)
(* upd.pc is the step about to run.  A step of the store or of the feed    *)
(* either succeeds or fails; upd records which steps of this invocation    *)
(* were run (ran), which failed, and how the invocation ended.             *)
(***************************************************************************)

UpdIdle ==
    [pc |-> "idle", effectiveDate |-> 0, allPricingData |-> <<>>, i |-> 0,
     ran |-> {},
     listFailed |-> FALSE, markFailed |-> FALSE, insertFailed |-> FALSE,
     cleanupFailed |-> FALSE, purged |-> 0, outcome |-> "none",
     report |-> <<>>]

\* lines 24-30: the handler starts and reads the clock
UpdBegin ==
    /\ upd.pc \in {"idle", "done"}
    /\ runs < MaxRuns
    /\ upd' = [UpdIdle EXCEPT !.pc = "fetch", !.effectiveDate = today]
    /\ runs' = runs + 1
    /\ UNCHANGED <<today, ticks, catalog, fetchResp, calc, boqTable, fn>>

\* lines 39-43: fetchServicePricing lists the SKUs and normalizes them
UpdFetch ==
    /\ upd.pc = "fetch"
    /\ \E listed \in BOOLEAN, skus \in Feeds :
          upd' = [upd EXCEPT
                    !.pc = "mark",
                    !.listFailed = ~listed,
                    !.allPricingData =
                        fetchServicePricing(listed, skus, "Compute Engine", today)]
    /\ UNCHANGED <<today, ticks, catalog, runs, fetchResp, calc, boqTable, fn>>

\* UpdMark with a failure of markExistingPricingInactive rethrown, which
\* ends the handler
UpdMark_Rethrows ==
    /\ upd.pc = "mark"
    /\ \E ok \in BOOLEAN :
          IF ok
          THEN /\ catalog' = markExistingPricingInactive(catalog, upd.effectiveDate)
               /\ upd' = [upd EXCEPT
                            !.ran = upd.ran \cup {"mark"},
                            !.pc = IF Len(upd.allPricingData) > 0
                                   THEN "insert" ELSE "cleanup"]
          ELSE /\ catalog' = catalog
               /\ upd' = [upd EXCEPT !.ran = upd.ran \cup {"mark"},
                                     !.markFailed = TRUE, !.pc = "done",
                                     !.outcome = "failure"]
    /\ UNCHANGED <<today, ticks, runs, fetchResp, calc, boqTable, fn>>

\* line 50: markExistingPricingInactive; its failure is caught and logged
UpdMark ==
    /\ upd.pc = "mark"
    /\ \E ok \in BOOLEAN :
          /\ catalog' = IF ok
                        THEN markExistingPricingInactive(catalog, upd.effectiveDate)
                        ELSE catalog
          /\ upd' = [upd EXCEPT
                       !.markFailed = ~ok,
                       !.ran = upd.ran \cup {"mark"},
                       !.pc = IF Len(upd.allPricingData) > 0
                              THEN "insert" ELSE "cleanup"]
    /\ UNCHANGED <<today, ticks, runs, fetchResp, calc, boqTable, fn>>

\* lines 53-55 and 417-438: insertPricingData inserts one batch; a failed
\* insert is rethrown and ends the handler (lines 76-79)
UpdInsertBatch ==
    /\ upd.pc = "insert"
    /\ \E ok \in BOOLEAN :
          IF ok
          THEN /\ catalog' = TableInsert(catalog, BatchAt(upd.allPricingData, upd.i))
               /\ upd' = [upd EXCEPT
                            !.ran = upd.ran \cup {"insert"},
                            !.i = upd.i + BatchSize,
                            !.pc = IF upd.i + BatchSize < Len(upd.allPricingData)
                                   THEN "insert" ELSE "cleanup"]
          ELSE /\ catalog' = catalog
               /\ upd' = [upd EXCEPT !.ran = upd.ran \cup {"insert"},
                                     !.insertFailed = TRUE, !.pc = "done",
                                     !.outcome = "failure"]
    /\ UNCHANGED <<today, ticks, runs, fetchResp, calc, boqTable, fn>>

\* line 58: cleanupOldPricingData; its failure is caught and logged
UpdCleanup ==
    /\ upd.pc = "cleanup"
    /\ \E ok \in BOOLEAN :
          /\ catalog' = IF ok THEN cleanupOldPricingData(catalog, today) ELSE catalog
          /\ upd' = [upd EXCEPT !.ran = upd.ran \cup {"cleanup"},
                                !.cleanupFailed = ~ok, !.pc = "report",
                                !.purged = Len(catalog) - Len(catalog')]
    /\ UNCHANGED <<today, ticks, runs, fetchResp, calc, boqTable, fn>>

\* SELECT ... WHERE effective_date = @effectiveDate AND is_active = true:
\* the number of rows the report's query counts
ReportCount(rows, effectiveDate) ==
    LET Counted(r) == r.effective_date = effectiveDate /\ r.is_active
    IN  Len(SelectSeq(rows, Counted))

\* lines 61-75 and 471-507: generateUpdateReport, then the handler returns
UpdReport ==
    /\ upd.pc = "report"
    /\ \E ok \in BOOLEAN :
          upd' = [upd EXCEPT
                    !.pc = "done",
                    !.outcome = "success",
                    !.report =
                        << [effective_date |-> upd.effectiveDate,
                            total_records |-> Len(upd.allPricingData),
                            record_count |->
                                IF ok THEN ReportCount(catalog, upd.effectiveDate)
                                ELSE -1] >>]
    /\ UNCHANGED <<today, ticks, catalog, runs, fetchResp, calc, boqTable, fn>>


-----------------------------------------------------------------------------
(* fetchPricing (pricing-fetcher) *)

FetcherFamilies == {"n1", "n2", "n2d", "e2", "c2", "c2d", "m1", "m2", "f1", "g1"}

FetcherRules(desc) ==
    << RuleFamily(desc, FetcherFamilies), RuleMachineType(desc, FetcherFamilies),
       RuleVcpu(desc), RuleMemory(desc), RuleDiskFetcher(desc), RuleGpu(desc),
       RuleUsage(desc), RuleCommitment(desc) >>

extractMachineInfoFetcher(desc) ==
    InfoAfter(FetcherRules(desc), Len(FetcherRules(desc)))

\* the fetcher's row of a SKU (a list of one row), or NoRow for null
extractPricingInfoFetcher(sku, now) ==
    IF sku.pricingInfo = <<>> THEN NoRow
    ELSE LET rates == sku.pricingInfo[1].tieredRates IN
         IF rates = <<>> THEN NoRow
         ELSE LET pricePerUnit == UnitPrice(rates[1].unitPrice)
                  machineInfo == extractMachineInfoFetcher(sku.description)
              IN  << [sku_id |-> sku.skuId,
                      service_name |-> "Compute Engine",
                      usage_type |-> machineInfo.usageType,
                      region |-> IF Len(sku.serviceRegions) > 0
                                 THEN sku.serviceRegions[1] ELSE NULL,
                      price_per_unit |-> pricePerUnit,
                      tiered_rates |-> <<>>,
                      machine_family |-> machineInfo.machineFamily,
                      machine_type |-> machineInfo.machineType,
                      disk_type |-> machineInfo.diskType,
                      gpu_type |-> machineInfo.gpuType,
                      effective_date |-> now,
                      is_active |-> TRUE,
                      category |-> machineInfo.category] >>

\* the rows fetchGCPPricing builds: the SKUs that name an instance, a disk or
\* a GPU and, when a region is asked for, list it
RECURSIVE fetchGCPPricing(_, _, _)
fetchGCPPricing(skus, region, now) ==
    IF skus = <<>> THEN <<>>
    ELSE LET sku == Head(skus)
             rest == fetchGCPPricing(Tail(skus), region, now)
         IN  IF sku.description.kw \cap {"instance", "disk", "gpu"} = {} THEN rest
             ELSE IF region # NULL /\ region \notin Range(sku.serviceRegions) THEN rest
             ELSE extractPricingInfoFetcher(sku, now) \o rest

\* savePricingToBigQuery: every batch of the rows inserted
RECURSIVE savePricingToBigQuery(_, _, _)
savePricingToBigQuery(rows, pricingData, i) ==
    IF i >= Len(pricingData) THEN rows
    ELSE savePricingToBigQuery(TableInsert(rows, BatchAt(pricingData, i)),
                               pricingData, i + BatchSize)

\* the handler; a failure of listSkus or of the insert is answered with 500
FetchPricing ==
    /\ runs < MaxRuns
    /\ \E listed \in BOOLEAN, skus \in Feeds, region \in {NULL, "us-central1"},
          save \in BOOLEAN, ok \in BOOLEAN :
          LET pricingData == fetchGCPPricing(skus, region, today) IN
          /\ ~listed => ok
          /\ ~save => ok
          /\ catalog' = IF listed /\ save /\ ok
                        THEN savePricingToBigQuery(catalog, pricingData, 0)
                        ELSE catalog
          /\ fetchResp' = IF listed /\ ok
                          THEN [status |-> 200, success |-> TRUE, saved |-> save,
                                records |-> Len(pricingData)]
                          ELSE [status |-> 500, success |-> FALSE, saved |-> FALSE,
                                records |-> 0]
    /\ runs' = runs + 1
    /\ UNCHANGED <<today, ticks, upd, calc, boqTable, fn>>

-----------------------------------------------------------------------------
(* The clock advances by a day, or past the retention window *)

Tick ==
    /\ ticks < MaxTicks
    /\ \E d \in {1, RetentionDays + 1} : today' = today + d
    /\ ticks' = ticks + 1
    /\ UNCHANGED <<catalog, upd, runs, fetchResp, calc, boqTable, fn>>

-----------------------------------------------------------------------------
(* The catalog's lifecycle: refreshes, fetcher saves and the clock *)

CalcIdle ==
    [pc |-> "idle", boqId |-> 0, resourceSpecs |-> <<>>, k |-> 0,
     boqResults |-> <<>>, raisedAt |-> {}, saveFailed |-> FALSE,
     fetchOutcome |-> "none", inserts |-> 0,
     response |-> [status |-> 0]]
FnIdle == [op |-> "none"]
NoResp == [status |-> 0, success |-> FALSE, saved |-> FALSE, records |-> 0]

\* no handler has run
Idle ==
    /\ today = 0
    /\ ticks = 0
    /\ upd = UpdIdle
    /\ runs = 0
    /\ fetchResp = NoResp
    /\ calc = CalcIdle
    /\ boqTable = <<>>
    /\ fn = FnIdle

Init ==
    /\ Idle
    /\ catalog = <<>>

NextCatalog ==
    \/ UpdBegin
    \/ UpdFetch
    \/ UpdMark
    \/ UpdInsertBatch
    \/ UpdCleanup
    \/ UpdReport
    \/ FetchPricing
    \/ Tick

SpecCatalog == Init /\ [][NextCatalog]_vars

(* Refreshes alone: the scheduled trigger is the catalog's only writer *)

NextRefresh ==
    \/ UpdBegin
    \/ UpdFetch
    \/ UpdMark
    \/ UpdInsertBatch
    \/ UpdCleanup
    \/ UpdReport
    \/ Tick

SpecRefresh == Init /\ [][NextRefresh]_vars


-----------------------------------------------------------------------------
(***************************************************************************)
(* The calculator: the pure steps of calculateResourceBoQ.  A resource is  *)
(* a row of gcp_resource_specifications; its machine_type is the list of   *)
(* its dash-separated tokens (<<>> when the field is missing), and its     *)
(* additional_disks is [kind, disks] with kind "absent" (null or []),      *)
(* "array" (disks lists them) or "malformed" (a value that is not an       *)
(* array, such as undecoded JSON text, on which .map is no function).      *)
(***************************************************************************)

PricingModels == {"on-demand", "cud-1-year", "cud-3-year", "spot", "preemptible"}
UsagePatterns == {"continuous", "intermittent", "scheduled"}

getUsageType(pricingModel) ==
    CASE pricingModel \in {"spot", "preemptible"} -> "Preemptible"
      [] pricingModel \in {"cud-1-year", "cud-3-year"} -> "Committed"
      [] OTHER -> "OnDemand"

\* estimateComputePricing that leaves the memory out of the estimate
estimateComputePricing_VcpuOnly(resource) ==
    resource.vcpu_count * BaseVcpuPrice

estimateComputePricing(resource) ==
    resource.vcpu_count * BaseVcpuPrice + resource.memory_gb * MemoryPriceTenthGb

getDefaultStoragePricing(diskType) ==
    CASE diskType = "pd-ssd" -> 17000
      [] diskType = "pd-balanced" -> 10000
      [] OTHER -> 4000

calculateBaseCosts(resource, pricing) ==
    [compute |-> pricing.compute_price_per_hour * resource.usage_duration_hours
                 * CostPerPrice,
     memory |-> 0,
     storage |-> ((pricing.storage_price_per_gb_month * resource.disk_size_gb
                   * resource.usage_duration_hours) \div HoursPerMonth) * CostPerPrice,
     network |-> IF resource.external_ip
                 THEN StaticIpPrice * resource.usage_duration_hours * CostPerPrice
                 ELSE 0,
     gpu |-> IF resource.gpu_count > 0
             THEN pricing.gpu_price_per_hour * resource.gpu_count
                  * resource.usage_duration_hours * CostPerPrice
             ELSE 0]

\* cost * (percent / 100); exact, a cost being a multiple of 100 cost units
PercentOf(cost, percent) == (cost \div 100) * percent

NoDiscounts ==
    [sud_percent |-> 0, cud_percent |-> 0, spot_percent |-> 0,
     sud_amount |-> 0, cud_amount |-> 0, spot_amount |-> 0]

\* calculateDiscounts that grants the sustained-use discount whatever the
\* usage pattern
calculateDiscounts_AnyPattern(resource, costs) ==
    LET totalComputeCost == costs.compute + costs.gpu
        sud == Min(SudMaxPercent,
                   ((resource.usage_duration_hours - SudThresholdHours)
                        \div SudStepHours) * SudStepPercent)
    IN  CASE resource.pricing_model \in {"spot", "preemptible"} ->
                [NoDiscounts EXCEPT
                    !.spot_percent = SpotPercent,
                    !.spot_amount = PercentOf(totalComputeCost, SpotPercent)]
          [] resource.pricing_model = "cud-1-year" ->
                [NoDiscounts EXCEPT
                    !.cud_percent = Cud1YearPercent,
                    !.cud_amount = PercentOf(totalComputeCost, Cud1YearPercent)]
          [] resource.pricing_model = "cud-3-year" ->
                [NoDiscounts EXCEPT
                    !.cud_percent = Cud3YearPercent,
                    !.cud_amount = PercentOf(totalComputeCost, Cud3YearPercent)]
          [] OTHER ->
                IF resource.usage_duration_hours > SudThresholdHours
                THEN [NoDiscounts EXCEPT
                        !.sud_percent = sud,
                        !.sud_amount = PercentOf(totalComputeCost, sud)]
                ELSE NoDiscounts

\* calculateDiscounts whose spot case falls through to the sustained-use case
\* (a missing break)
calculateDiscounts_SpotFallsThrough(resource, costs) ==
    LET totalComputeCost == costs.compute + costs.gpu
        sud == Min(SudMaxPercent,
                   ((resource.usage_duration_hours - SudThresholdHours)
                        \div SudStepHours) * SudStepPercent)
        sudApplies == /\ resource.usage_duration_hours > SudThresholdHours
                      /\ resource.usage_pattern = "continuous"
        withSud(d) == IF sudApplies
                      THEN [d EXCEPT !.sud_percent = sud,
                                     !.sud_amount = PercentOf(totalComputeCost, sud)]
                      ELSE d
    IN  CASE resource.pricing_model \in {"spot", "preemptible"} ->
                withSud([NoDiscounts EXCEPT
                    !.spot_percent = SpotPercent,
                    !.spot_amount = PercentOf(totalComputeCost, SpotPercent)])
          [] resource.pricing_model = "cud-1-year" ->
                [NoDiscounts EXCEPT
                    !.cud_percent = Cud1YearPercent,
                    !.cud_amount = PercentOf(totalComputeCost, Cud1YearPercent)]
          [] resource.pricing_model = "cud-3-year" ->
                [NoDiscounts EXCEPT
                    !.cud_percent = Cud3YearPercent,
                    !.cud_amount = PercentOf(totalComputeCost, Cud3YearPercent)]
          [] OTHER -> withSud(NoDiscounts)

\* calculateDiscounts whose committed-use cases lack their break and run on
\* into the on-demand case
calculateDiscounts_CudFallsThrough(resource, costs) ==
    LET totalComputeCost == costs.compute + costs.gpu
        sud == Min(SudMaxPercent,
                   ((resource.usage_duration_hours - SudThresholdHours)
                        \div SudStepHours) * SudStepPercent)
        applies == /\ resource.usage_duration_hours > SudThresholdHours
                   /\ resource.usage_pattern = "continuous"
        onDemand == IF applies
                    THEN [NoDiscounts EXCEPT
                            !.sud_percent = sud,
                            !.sud_amount = PercentOf(totalComputeCost, sud)]
                    ELSE NoDiscounts
    IN  CASE resource.pricing_model \in {"spot", "preemptible"} ->
                [NoDiscounts EXCEPT
                    !.spot_percent = SpotPercent,
                    !.spot_amount = PercentOf(totalComputeCost, SpotPercent)]
          [] resource.pricing_model = "cud-1-year" ->
                [onDemand EXCEPT
                    !.cud_percent = Cud1YearPercent,
                    !.cud_amount = PercentOf(totalComputeCost, Cud1YearPercent)]
          [] resource.pricing_model = "cud-3-year" ->
                [onDemand EXCEPT
                    !.cud_percent = Cud3YearPercent,
                    !.cud_amount = PercentOf(totalComputeCost, Cud3YearPercent)]
          [] OTHER -> onDemand

\* calculateDiscounts whose sustained-use percent lacks the cap of Math.min
calculateDiscounts_NoCap(resource, costs) ==
    LET totalComputeCost == costs.compute + costs.gpu
        sud == ((resource.usage_duration_hours - SudThresholdHours)
                    \div SudStepHours) * SudStepPercent
    IN  CASE resource.pricing_model \in {"spot", "preemptible"} ->
                [NoDiscounts EXCEPT
                    !.spot_percent = SpotPercent,
                    !.spot_amount = PercentOf(totalComputeCost, SpotPercent)]
          [] resource.pricing_model = "cud-1-year" ->
                [NoDiscounts EXCEPT
                    !.cud_percent = Cud1YearPercent,
                    !.cud_amount = PercentOf(totalComputeCost, Cud1YearPercent)]
          [] resource.pricing_model = "cud-3-year" ->
                [NoDiscounts EXCEPT
                    !.cud_percent = Cud3YearPercent,
                    !.cud_amount = PercentOf(totalComputeCost, Cud3YearPercent)]
          [] OTHER ->
                IF /\ resource.usage_duration_hours > SudThresholdHours
                   /\ resource.usage_pattern = "continuous"
                THEN [NoDiscounts EXCEPT
                        !.sud_percent = sud,
                        !.sud_amount = PercentOf(totalComputeCost, sud)]
                ELSE NoDiscounts

calculateDiscounts(resource, costs) ==
    LET totalComputeCost == costs.compute + costs.gpu
        sud == Min(SudMaxPercent,
                   ((resource.usage_duration_hours - SudThresholdHours)
                        \div SudStepHours) * SudStepPercent)
    IN  CASE resource.pricing_model \in {"spot", "preemptible"} ->
                [NoDiscounts EXCEPT
                    !.spot_percent = SpotPercent,
                    !.spot_amount = PercentOf(totalComputeCost, SpotPercent)]
          [] resource.pricing_model = "cud-1-year" ->
                [NoDiscounts EXCEPT
                    !.cud_percent = Cud1YearPercent,
                    !.cud_amount = PercentOf(totalComputeCost, Cud1YearPercent)]
          [] resource.pricing_model = "cud-3-year" ->
                [NoDiscounts EXCEPT
                    !.cud_percent = Cud3YearPercent,
                    !.cud_amount = PercentOf(totalComputeCost, Cud3YearPercent)]
          [] OTHER ->
                IF /\ resource.usage_duration_hours > SudThresholdHours
                   /\ resource.usage_pattern = "continuous"
                THEN [NoDiscounts EXCEPT
                        !.sud_percent = sud,
                        !.sud_amount = PercentOf(totalComputeCost, sud)]
                ELSE NoDiscounts

\* calculateTotals without the floor at zero
calculateTotals_NoFloor(costs, discounts) ==
    LET subtotal == costs.compute + costs.memory + costs.storage + costs.network
                    + costs.gpu
        totalDiscount == discounts.sud_amount + discounts.cud_amount
                         + discounts.spot_amount
    IN  [subtotal |-> subtotal,
         total_discount |-> totalDiscount,
         total_cost |-> subtotal - totalDiscount]

calculateTotals(costs, discounts) ==
    LET subtotal == costs.compute + costs.memory + costs.storage + costs.network
                    + costs.gpu
        totalDiscount == discounts.sud_amount + discounts.cud_amount
                         + discounts.spot_amount
        totalCost == subtotal - totalDiscount
    IN  [subtotal |-> subtotal,
         total_discount |-> totalDiscount,
         total_cost |-> Max(0, totalCost)]

-----------------------------------------------------------------------------
(***************************************************************************)
(* The price resolver, fetchPricingForResource.  Each of its three catalog *)
(* queries returns at most one row (LIMIT 1): a lookup is the set of row   *)
(* numbers the query may return, {0} when no row matches.  Rows that tie   *)
(* in the ORDER BY may be returned in any order.                           *)
(***************************************************************************)

\* the token before the first dash: machine_type.split("-")[0]
MachineFamilyOf(machineType) == Head(machineType)

\* WHERE clause of the compute query (lines 233-238)
ComputeMatches(rows, resource) ==
    {i \in 1..Len(rows) :
        /\ rows[i].service_name = "Compute Engine"
        /\ rows[i].category = "compute"
        /\ \/ rows[i].machine_type = resource.machine_type
           \/ rows[i].machine_family = MachineFamilyOf(resource.machine_type)
        /\ \/ rows[i].region = resource.region
           \/ rows[i].region = NULL
        /\ rows[i].usage_type = getUsageType(resource.pricing_model)
        /\ rows[i].is_active}

\* ComputeOrder with the two sort keys exchanged: the region first
ComputeOrder_RegionFirst(row, resource) ==
    (IF row.machine_type = resource.machine_type THEN 1 ELSE 2)
    + 2 * (IF row.region = resource.region THEN 1 ELSE 2)

\* ORDER BY of the compute query (lines 239-241), as one number
ComputeOrder(row, resource) ==
    2 * (IF row.machine_type = resource.machine_type THEN 1 ELSE 2)
    + (IF row.region = resource.region THEN 1 ELSE 2)

\* ORDER BY CASE WHEN region = @region THEN 1 ELSE 2 END
RegionOrder(row, resource) == IF row.region = resource.region THEN 1 ELSE 2

\* the rows a query may return first: those of least order among the matches
FirstRows(matches, order) ==
    IF matches = {} THEN {0}
    ELSE {i \in matches : \A j \in matches : order[i] <= order[j]}

ComputeLookup(rows, resource) ==
    FirstRows(ComputeMatches(rows, resource),
              [i \in 1..Len(rows) |-> ComputeOrder(rows[i], resource)])

\* WHERE clause of the storage query (lines 269-273)
StorageMatches(rows, resource) ==
    {i \in 1..Len(rows) :
        /\ rows[i].service_name = "Compute Engine"
        /\ rows[i].category = "storage"
        /\ rows[i].disk_type = resource.disk_type
        /\ \/ rows[i].region = resource.region
           \/ rows[i].region = NULL
        /\ rows[i].is_active}

StorageLookup(rows, resource) ==
    FirstRows(StorageMatches(rows, resource),
              [i \in 1..Len(rows) |-> RegionOrder(rows[i], resource)])

\* WHERE clause of the GPU query (lines 300-304)
GpuMatches(rows, resource) ==
    {i \in 1..Len(rows) :
        /\ rows[i].service_name = "Compute Engine"
        /\ rows[i].category = "gpu"
        /\ rows[i].gpu_type = resource.gpu_type
        /\ \/ rows[i].region = resource.region
           \/ rows[i].region = NULL
        /\ rows[i].is_active}

GpuLookup(rows, resource) ==
    FirstRows(GpuMatches(rows, resource),
              [i \in 1..Len(rows) |-> RegionOrder(rows[i], resource)])

NoPricing ==
    [compute_price_per_hour |-> 0, memory_price_per_gb_hour |-> 0,
     storage_price_per_gb_month |-> 0, network_price_per_gb |-> 0,
     gpu_price_per_hour |-> 0]

\* the catch block (lines 321-328): the pricing so far with the compute and
\* storage prices replaced by the fallback
FallbackPricing(pricing, resource) ==
    [pricing EXCEPT
        !.compute_price_per_hour = estimateComputePricing(resource),
        !.storage_price_per_gb_month = getDefaultStoragePricing(resource.disk_type)]

QueryFailures == {"none", "compute", "storage", "gpu"}

\* fetchPricingForResource without its try/catch: a missing machine_type or
\* a failed query is raised to the caller
fetchPricingForResource_NoCatch(resource, rows, fail, c, s, g) ==
    LET thrown == [raised |-> TRUE, pricing |-> NoPricing,
                   compute_row |-> -1, storage_row |-> -1, gpu_row |-> -1]
        p1 == [NoPricing EXCEPT
                  !.compute_price_per_hour =
                      IF c > 0 THEN rows[c].price_per_unit
                      ELSE estimateComputePricing(resource)]
        p2 == [p1 EXCEPT
                  !.storage_price_per_gb_month =
                      IF s > 0 THEN rows[s].price_per_unit
                      ELSE getDefaultStoragePricing(resource.disk_type)]
        p3 == [p2 EXCEPT
                  !.gpu_price_per_hour =
                      IF g > 0 THEN rows[g].price_per_unit ELSE 0]
    IN  IF resource.machine_type = <<>> THEN thrown
        ELSE IF fail \in {"compute", "storage"} THEN thrown
        ELSE IF resource.gpu_count > 0
             THEN IF fail = "gpu" THEN thrown
                  ELSE [raised |-> FALSE, pricing |-> p3,
                        compute_row |-> c, storage_row |-> s, gpu_row |-> g]
             ELSE [raised |-> FALSE, pricing |-> p2,
                   compute_row |-> c, storage_row |-> s, gpu_row |-> -1]

\* fail names the query that fails; c, s and g are the rows the compute,
\* storage and GPU queries return (0: none).  The result holds the pricing,
\* whether an error was raised to the caller, and the row each lookup that
\* ran returned (-1: the lookup did not run).
fetchPricingForResource(resource, rows, fail, c, s, g) ==
    LET caught(pricing, cr, sr, gr) ==
            [raised |-> FALSE, pricing |-> FallbackPricing(pricing, resource),
             compute_row |-> cr, storage_row |-> sr, gpu_row |-> gr]
        p1 == [NoPricing EXCEPT
                  !.compute_price_per_hour =
                      IF c > 0 THEN rows[c].price_per_unit
                      ELSE estimateComputePricing(resource)]
        p2 == [p1 EXCEPT
                  !.storage_price_per_gb_month =
                      IF s > 0 THEN rows[s].price_per_unit
                      ELSE getDefaultStoragePricing(resource.disk_type)]
        p3 == [p2 EXCEPT
                  !.gpu_price_per_hour =
                      IF g > 0 THEN rows[g].price_per_unit ELSE 0]
    IN  IF resource.machine_type = <<>> THEN caught(NoPricing, -1, -1, -1)
        ELSE IF fail = "compute" THEN caught(NoPricing, -1, -1, -1)
        ELSE IF fail = "storage" THEN caught(p1, c, -1, -1)
        ELSE IF resource.gpu_count > 0
             THEN IF fail = "gpu" THEN caught(p2, c, s, -1)
                  ELSE [raised |-> FALSE, pricing |-> p3,
                        compute_row |-> c, storage_row |-> s, gpu_row |-> g]
             ELSE [raised |-> FALSE, pricing |-> p2,
                   compute_row |-> c, storage_row |-> s, gpu_row |-> -1]

-----------------------------------------------------------------------------
(* The price resolver applied to drawn catalogs and resources *)

MaxCatalogRows == 2  \* rows of a drawn catalog

CatalogRow(sku, service, category, mtype, family, usage, region, active, disk, gpu, price) ==
    [sku_id |-> sku, service_name |-> service, usage_type |-> usage,
     region |-> region, price_per_unit |-> price, tiered_rates |-> <<>>,
     machine_family |-> family, machine_type |-> mtype, disk_type |-> disk,
     gpu_type |-> gpu, effective_date |-> 0, is_active |-> active,
     category |-> category]

N1Standard2 == <<"n1", "standard", "2">>
N1Highmem4 == <<"n1", "highmem", "4">>
ComputeEngine == "Compute Engine"

\* rows that differ in what the queries read; the price tells them apart
RowPool ==
    { CatalogRow("c-exact-us", ComputeEngine, "compute", N1Standard2, "n1",
                 "OnDemand", "us-central1", TRUE, NULL, NULL, 9500),
      CatalogRow("c-exact-any", ComputeEngine, "compute", N1Standard2, "n1",
                 "OnDemand", NULL, TRUE, NULL, NULL, 9600),
      CatalogRow("c-highmem-us", ComputeEngine, "compute", N1Highmem4, "n1",
                 "OnDemand", "us-central1", TRUE, NULL, NULL, 9700),
      CatalogRow("c-family-any", ComputeEngine, "compute", <<>>, "n1",
                 "OnDemand", NULL, TRUE, NULL, NULL, 9800),
      CatalogRow("c-exact-old", ComputeEngine, "compute", N1Standard2, "n1",
                 "OnDemand", "us-central1", FALSE, NULL, NULL, 9100),
      CatalogRow("c-exact-eu", ComputeEngine, "compute", N1Standard2, "n1",
                 "OnDemand", "europe-west1", TRUE, NULL, NULL, 9900),
      CatalogRow("c-spot-us", ComputeEngine, "compute", N1Standard2, "n1",
                 "Preemptible", "us-central1", TRUE, NULL, NULL, 2000),
      CatalogRow("c-cud-any", ComputeEngine, "compute", <<>>, "n1",
                 "Committed", NULL, TRUE, NULL, NULL, 7000),
      CatalogRow("s-n1-disk", ComputeEngine, "storage", N1Standard2, "n1",
                 "OnDemand", "us-central1", TRUE, "pd-standard", NULL, 4100),
      CatalogRow("s-std-any", ComputeEngine, "storage", <<>>, NULL,
                 "OnDemand", NULL, TRUE, "pd-standard", NULL, 4200),
      CatalogRow("g-t4-any", ComputeEngine, "gpu", <<>>, NULL,
                 "OnDemand", NULL, TRUE, NULL, "nvidia-t4", 35000) }

\* the catalogs of at most MaxCatalogRows different rows, in every row order
RECURSIVE CatalogsOf(_)
CatalogsOf(n) ==
    IF n = 0 THEN {<<>>}
    ELSE LET shorter == CatalogsOf(n - 1)
         IN  shorter \cup
             {Append1(rows, r) : rows \in {q \in shorter : Len(q) = n - 1},
                                 r \in RowPool}

DrawnCatalogs ==
    {rows \in CatalogsOf(MaxCatalogRows) :
        \A i, j \in 1..Len(rows) : i # j => rows[i] # rows[j]}

BaseResource ==
    [resource_id |-> "res-1", project_id |-> "proj-a",
     machine_type |-> N1Standard2, vcpu_count |-> 2, memory_gb |-> 75,
     disk_type |-> "pd-standard", disk_size_gb |-> 100,
     additional_disks |-> [kind |-> "absent", disks |-> <<>>],
     region |-> "us-central1", usage_duration_hours |-> 730,
     usage_pattern |-> "continuous", pricing_model |-> "on-demand",
     gpu_type |-> NULL, gpu_count |-> 0, external_ip |-> FALSE]

DrawnResources ==
    {[BaseResource EXCEPT !.machine_type = mtype, !.pricing_model = model,
                          !.region = region, !.gpu_count = gpus,
                          !.gpu_type = IF gpus > 0 THEN "nvidia-t4" ELSE NULL] :
        mtype \in {N1Standard2, N1Highmem4, <<>>},
        model \in PricingModels,
        region \in {"us-central1", "europe-west1"},
        gpus \in {0, 1}}

InitResolve ==
    /\ Idle
    /\ catalog \in DrawnCatalogs

\* fetchPricingForResource on a drawn resource, with any one query failing
\* and each query returning any row it may return
Resolve ==
    /\ fn.op = "none"
    /\ \E resource \in DrawnResources, fail \in QueryFailures :
          LET known == resource.machine_type # <<>> IN
          \E c \in (IF known THEN ComputeLookup(catalog, resource) ELSE {0}),
             s \in StorageLookup(catalog, resource),
             g \in GpuLookup(catalog, resource) :
                fn' = [op |-> "fetchPricingForResource", resource |-> resource,
                       fail |-> fail,
                       result |-> fetchPricingForResource(resource, catalog,
                                                          fail, c, s, g)]
    /\ UNCHANGED <<today, ticks, catalog, upd, runs, fetchResp, calc, boqTable>>

NextResolve == Resolve

SpecResolve == InitResolve /\ [][NextResolve]_vars

-----------------------------------------------------------------------------
(***************************************************************************)
(* calculateBoQ: one line item per resource, the batch insert and the      *)
(* summary.                                                                *)
(***************************************************************************)

\* resource.additional_disks.map(...) of a value that is no array
AdditionalDisksRaise(resource) == resource.additional_disks.kind = "malformed"

\* calculateAdditionalStorageCosts that prices each additional disk at the
\* storage price resolved for the resource
calculateAdditionalStorageCosts_ResolvedPrice(resource, pricing) ==
    IF resource.additional_disks.kind = "absent" THEN <<>>
    ELSE LET disks == resource.additional_disks.disks IN
         [i \in 1..Len(disks) |->
            [disk_type |-> disks[i].disk_type,
             size_gb |-> disks[i].size_gb,
             price_per_gb_month |-> pricing.storage_price_per_gb_month,
             cost_usd |->
                 ((pricing.storage_price_per_gb_month * disks[i].size_gb
                   * resource.usage_duration_hours) \div HoursPerMonth)
                 * CostPerPrice]]

calculateAdditionalStorageCosts(resource, pricing) ==
    IF resource.additional_disks.kind = "absent" THEN <<>>
    ELSE LET disks == resource.additional_disks.disks IN
         [i \in 1..Len(disks) |->
            [disk_type |-> disks[i].disk_type,
             size_gb |-> disks[i].size_gb,
             price_per_gb_month |-> getDefaultStoragePricing(disks[i].disk_type),
             cost_usd |->
                 ((getDefaultStoragePricing(disks[i].disk_type) * disks[i].size_gb
                   * resource.usage_duration_hours) \div HoursPerMonth)
                 * CostPerPrice]]

NoItem == [resource_id |-> NULL]

\* the line item of a resource, or the error raised while computing it
calculateResourceBoQ(resource, boqId, rows, fail, c, s, g) ==
    LET fetched == fetchPricingForResource(resource, rows, fail, c, s, g)
        pricing == fetched.pricing
        costs == calculateBaseCosts(resource, pricing)
        discounts == calculateDiscounts(resource, costs)
        totals == calculateTotals(costs, discounts)
    IN  IF fetched.raised \/ AdditionalDisksRaise(resource)
        THEN [raised |-> TRUE, item |-> NoItem]
        ELSE [raised |-> FALSE,
              item |->
                [boq_id |-> boqId,
                 resource_id |-> resource.resource_id,
                 project_id |-> resource.project_id,
                 region |-> resource.region,
                 machine_type |-> resource.machine_type,
                 pricing_model |-> resource.pricing_model,
                 compute_cost_usd |-> costs.compute,
                 memory_cost_usd |-> costs.memory,
                 storage_cost_usd |-> costs.storage,
                 network_cost_usd |-> costs.network,
                 gpu_cost_usd |-> costs.gpu,
                 compute_price_per_hour |-> pricing.compute_price_per_hour,
                 storage_price_per_gb_month |-> pricing.storage_price_per_gb_month,
                 sustained_use_discount_percent |-> discounts.sud_percent,
                 committed_use_discount_percent |-> discounts.cud_percent,
                 spot_discount_percent |-> discounts.spot_percent,
                 subtotal_usd |-> totals.subtotal,
                 total_discount_usd |-> totals.total_discount,
                 total_cost_usd |-> totals.total_cost,
                 additional_storage_costs |->
                     calculateAdditionalStorageCosts(resource, pricing)]]

\* the object without a field that calculateSummary returns for no result
EmptySummary == <<>>

\* map[key] = amount, whatever map held for key
AddCost_Overwrites(map, key, amount) ==
    [x \in DOMAIN map \cup {key} |-> IF x = key THEN amount ELSE map[x]]

\* map[key] = (map[key] || 0) + amount (lines 490-492)
AddCost(map, key, amount) ==
    [x \in DOMAIN map \cup {key} |->
        IF x = key THEN (IF key \in DOMAIN map THEN map[key] ELSE 0) + amount
        ELSE map[x]]

\* the map built by results.forEach over the first n results, keyed by the
\* field named field
RECURSIVE CostBy(_, _, _)
CostBy(results, field, n) ==
    IF n = 0 THEN <<>>
    ELSE AddCost(CostBy(results, field, n - 1), results[n][field],
                 results[n].total_cost_usd)

calculateSummary(results) ==
    IF Len(results) = 0 THEN EmptySummary
    ELSE LET totalCost == SeqSum([i \in 1..Len(results) |-> results[i].total_cost_usd])
             totalDiscount ==
                 SeqSum([i \in 1..Len(results) |-> results[i].total_discount_usd])
         IN  [total_resources |-> Len(results),
              total_cost_usd |-> totalCost,
              total_discount_usd |-> totalDiscount,
              average_cost_per_resource |-> totalCost \div Len(results),
              cost_by_project |-> CostBy(results, "project_id", Len(results)),
              cost_by_region |-> CostBy(results, "region", Len(results))]

MaxCalcRuns == 1     \* calculateBoQ invocations
MaxResources == 2    \* resource specifications a run fetches

\* an on-demand instance, 400 hours of continuous use
ResValid == [BaseResource EXCEPT !.usage_duration_hours = 400]

\* a specification without machine_type
ResNoMachine ==
    [BaseResource EXCEPT !.resource_id = "res-2", !.project_id = "proj-b",
                         !.machine_type = <<>>, !.usage_duration_hours = 300,
                         !.disk_type = "pd-ssd"]

\* a spot instance whose additional_disks is not an array
ResBadDisks ==
    [BaseResource EXCEPT !.resource_id = "res-3", !.pricing_model = "spot",
                         !.usage_duration_hours = 200,
                         !.additional_disks = [kind |-> "malformed", disks |-> <<>>]]

\* a committed-use instance in another region with a GPU, an external IP
\* and two additional disks
ResGpu ==
    [BaseResource EXCEPT !.resource_id = "res-4", !.project_id = "proj-b",
                         !.region = "europe-west1", !.pricing_model = "cud-1-year",
                         !.usage_duration_hours = 100, !.gpu_count = 1,
                         !.gpu_type = "nvidia-t4", !.external_ip = TRUE,
                         !.additional_disks =
                             [kind |-> "array",
                              disks |-> <<[disk_type |-> "pd-ssd", size_gb |-> 50],
                                          [disk_type |-> "pd-standard",
                                           size_gb |-> 20]>>]]

ResourcePool == {ResValid, ResNoMachine, ResBadDisks, ResGpu}

\* the lists fetchResourceSpecifications may return
RECURSIVE ResourceLists(_)
ResourceLists(n) ==
    IF n = 0 THEN {<<>>}
    ELSE LET shorter == ResourceLists(n - 1)
         IN  shorter \cup
             {Append1(l, r) : l \in {q \in shorter : Len(q) = n - 1},
                              r \in ResourcePool}

\* the catalogs a run reads: none, and one with a compute, a storage and a
\* GPU row that match resources of the pool
BoQCatalogs ==
    { <<>>,
      << CatalogRow("c-exact-us", ComputeEngine, "compute", N1Standard2, "n1",
                    "OnDemand", "us-central1", TRUE, NULL, NULL, 9500),
         CatalogRow("s-std-any", ComputeEngine, "storage", <<>>, NULL,
                    "OnDemand", NULL, TRUE, "pd-standard", NULL, 4200),
         CatalogRow("g-t4-any", ComputeEngine, "gpu", <<>>, NULL,
                    "OnDemand", NULL, TRUE, NULL, "nvidia-t4", 35000) >> }

InitBoQ ==
    /\ Idle
    /\ catalog \in BoQCatalogs

\* the start of a run without the check for an empty fetch (lines 40-45): the
\* run goes on to the summary of no line item
CalcBegin_NoEmptyCheck ==
    /\ calc.pc \in {"idle", "done"}
    /\ calc.boqId < MaxCalcRuns
    /\ \E fetched \in BOOLEAN, resourceSpecs \in ResourceLists(MaxResources) :
          LET begun == [CalcIdle EXCEPT !.boqId = calc.boqId + 1] IN
          calc' =
              IF ~fetched
              THEN [begun EXCEPT !.pc = "done", !.fetchOutcome = "failed",
                                 !.response = [status |-> 500, success |-> FALSE]]
              ELSE IF Len(resourceSpecs) = 0
              THEN [begun EXCEPT !.pc = "respond", !.fetchOutcome = "empty"]
              ELSE [begun EXCEPT !.pc = "loop", !.k = 1, !.fetchOutcome = "rows",
                                 !.resourceSpecs = resourceSpecs]
    /\ UNCHANGED <<today, ticks, catalog, upd, runs, fetchResp, boqTable, fn>>

\* lines 22-48: the run identifier is generated and the resources fetched; a
\* failed fetch is answered with 500, an empty one with 404
CalcBegin ==
    /\ calc.pc \in {"idle", "done"}
    /\ calc.boqId < MaxCalcRuns
    /\ \E fetched \in BOOLEAN, resourceSpecs \in ResourceLists(MaxResources) :
          LET begun == [CalcIdle EXCEPT !.boqId = calc.boqId + 1] IN
          calc' =
              IF ~fetched
              THEN [begun EXCEPT !.pc = "done", !.fetchOutcome = "failed",
                                 !.response = [status |-> 500, success |-> FALSE]]
              ELSE IF Len(resourceSpecs) = 0
              THEN [begun EXCEPT !.pc = "done", !.fetchOutcome = "empty",
                                 !.response = [status |-> 404, success |-> FALSE]]
              ELSE [begun EXCEPT !.pc = "loop", !.k = 1, !.fetchOutcome = "rows",
                                 !.resourceSpecs = resourceSpecs]
    /\ UNCHANGED <<today, ticks, catalog, upd, runs, fetchResp, boqTable, fn>>

\* the loop without its try/catch: an error raised for a resource reaches the
\* handler of the run, which answers 500
CalcResource_Rethrows ==
    /\ calc.pc = "loop"
    /\ LET resource == calc.resourceSpecs[calc.k]
           known == resource.machine_type # <<>>
       IN  \E fail \in QueryFailures,
              c \in (IF known THEN ComputeLookup(catalog, resource) ELSE {0}),
              s \in StorageLookup(catalog, resource),
              g \in GpuLookup(catalog, resource) :
              LET boqResult == calculateResourceBoQ(resource, calc.boqId, catalog,
                                                    fail, c, s, g)
                  boqResults == Append1(calc.boqResults, boqResult.item)
              IN  calc' =
                      IF boqResult.raised
                      THEN [calc EXCEPT
                               !.raisedAt = calc.raisedAt \cup {calc.k},
                               !.pc = "done",
                               !.response = [status |-> 500, success |-> FALSE]]
                      ELSE [calc EXCEPT
                               !.boqResults = boqResults,
                               !.k = calc.k + 1,
                               !.pc = IF calc.k < Len(calc.resourceSpecs)
                                      THEN "loop" ELSE "save"]
    /\ UNCHANGED <<today, ticks, catalog, upd, runs, fetchResp, boqTable, fn>>

\* lines 52-67: one pass of the loop; an error raised for the resource is
\* caught and logged, and the loop goes on
CalcResource ==
    /\ calc.pc = "loop"
    /\ LET resource == calc.resourceSpecs[calc.k]
           known == resource.machine_type # <<>>
       IN  \E fail \in QueryFailures,
              c \in (IF known THEN ComputeLookup(catalog, resource) ELSE {0}),
              s \in StorageLookup(catalog, resource),
              g \in GpuLookup(catalog, resource) :
              LET boqResult == calculateResourceBoQ(resource, calc.boqId, catalog,
                                                    fail, c, s, g)
                  boqResults == IF boqResult.raised THEN calc.boqResults
                                ELSE Append1(calc.boqResults, boqResult.item)
              IN  calc' = [calc EXCEPT
                              !.boqResults = boqResults,
                              !.raisedAt = IF boqResult.raised
                                           THEN calc.raisedAt \cup {calc.k}
                                           ELSE calc.raisedAt,
                              !.k = calc.k + 1,
                              !.pc = IF calc.k < Len(calc.resourceSpecs) THEN "loop"
                                     ELSE IF Len(boqResults) > 0 THEN "save"
                                     ELSE "respond"]
    /\ UNCHANGED <<today, ticks, catalog, upd, runs, fetchResp, boqTable, fn>>

\* saveBoQResults that inserts the first line item only
CalcSave_FirstItemOnly ==
    /\ calc.pc = "save"
    /\ \E ok \in BOOLEAN :
          IF ok
          THEN /\ boqTable' = TableInsert(boqTable, <<calc.boqResults[1]>>)
               /\ calc' = [calc EXCEPT !.pc = "respond",
                                       !.inserts = calc.inserts + 1]
          ELSE /\ boqTable' = boqTable
               /\ calc' = [calc EXCEPT
                              !.pc = "done", !.saveFailed = TRUE,
                              !.inserts = calc.inserts + 1,
                              !.response = [status |-> 500, success |-> FALSE]]
    /\ UNCHANGED <<today, ticks, catalog, upd, runs, fetchResp, fn>>

\* saveBoQResults that logs its error without rethrowing it (line 470): the
\* run goes on to the summary and the answer
CalcSave_Swallows ==
    /\ calc.pc = "save"
    /\ \E ok \in BOOLEAN :
          IF ok
          THEN /\ boqTable' = TableInsert(boqTable, calc.boqResults)
               /\ calc' = [calc EXCEPT !.pc = "respond",
                                       !.inserts = calc.inserts + 1]
          ELSE /\ boqTable' = boqTable
               /\ calc' = [calc EXCEPT
                              !.pc = "respond", !.saveFailed = TRUE,
                              !.inserts = calc.inserts + 1]
    /\ UNCHANGED <<today, ticks, catalog, upd, runs, fetchResp, fn>>

\* lines 69-72 and 463-472: saveBoQResults; its failure is rethrown and
\* answered with 500 (lines 86-93)
CalcSave ==
    /\ calc.pc = "save"
    /\ \E ok \in BOOLEAN :
          IF ok
          THEN /\ boqTable' = TableInsert(boqTable, calc.boqResults)
               /\ calc' = [calc EXCEPT !.pc = "respond",
                                       !.inserts = calc.inserts + 1]
          ELSE /\ boqTable' = boqTable
               /\ calc' = [calc EXCEPT
                              !.pc = "done", !.saveFailed = TRUE,
                              !.inserts = calc.inserts + 1,
                              !.response = [status |-> 500, success |-> FALSE]]
    /\ UNCHANGED <<today, ticks, catalog, upd, runs, fetchResp, fn>>

\* the answer with resources_processed counting the fetched resources
CalcRespond_CountsFetched ==
    /\ calc.pc = "respond"
    /\ calc' = [calc EXCEPT
                   !.pc = "done",
                   !.response =
                       [status |-> 200, success |-> TRUE,
                        boq_id |-> calc.boqId,
                        resources_processed |-> Len(calc.resourceSpecs),
                        summary |-> calculateSummary(calc.boqResults),
                        results |-> calc.boqResults]]
    /\ UNCHANGED <<today, ticks, catalog, upd, runs, fetchResp, boqTable, fn>>

\* lines 74-85: the summary and the answer
CalcRespond ==
    /\ calc.pc = "respond"
    /\ calc' = [calc EXCEPT
                   !.pc = "done",
                   !.response =
                       [status |-> 200, success |-> TRUE,
                        boq_id |-> calc.boqId,
                        resources_processed |-> Len(calc.boqResults),
                        summary |-> calculateSummary(calc.boqResults),
                        results |-> calc.boqResults]]
    /\ UNCHANGED <<today, ticks, catalog, upd, runs, fetchResp, boqTable, fn>>

NextBoQ ==
    \/ CalcBegin
    \/ CalcResource
    \/ CalcSave
    \/ CalcRespond

SpecBoQ == InitBoQ /\ [][NextBoQ]_vars

-----------------------------------------------------------------------------
(* The description parsers applied to drawn descriptions *)

MaxKeywords == 3     \* keywords of a drawn description

\* the substrings the rules look for
ParseKeywords ==
    {"ssd", "balanced", "standard", "disk", "storage", "gpu", "nvidia",
     "preemptible", "1 year", "3-year", "premium", "network"}

\* a description that names the machine type n1-standard-2 contains
\* "standard"; a GPU model is captured after "nvidia" only
DrawnDescs ==
    {Desc(kw, machine, vcpu, 0, gpu) :
        kw \in {k \in SUBSET ParseKeywords : Cardinality(k) <= MaxKeywords},
        machine \in {<<>>, <<"e2", "micro">>, N1Standard2},
        vcpu \in {0, 2},
        gpu \in {NULL, "nvidia-t4"}}

WellFormedDesc(desc) ==
    /\ desc.machine = N1Standard2 => "standard" \in desc.kw
    /\ desc.gpu # NULL => "nvidia" \in desc.kw

\* extractMachineInfo of pricing-updater applied to a description
ParseUpdater ==
    /\ fn.op = "none"
    /\ \E desc \in DrawnDescs :
          /\ WellFormedDesc(desc)
          /\ fn' = [op |-> "extractMachineInfo", parser |-> "pricing-updater",
                    desc |-> desc, patches |-> UpdaterRules(desc),
                    disk |-> RuleDisk(desc), info |-> extractMachineInfo(desc)]
    /\ UNCHANGED <<today, ticks, catalog, upd, runs, fetchResp, calc, boqTable>>

\* extractMachineInfo of pricing-fetcher applied to a description
ParseFetcher ==
    /\ fn.op = "none"
    /\ \E desc \in DrawnDescs :
          /\ WellFormedDesc(desc)
          /\ fn' = [op |-> "extractMachineInfo", parser |-> "pricing-fetcher",
                    desc |-> desc, patches |-> FetcherRules(desc),
                    disk |-> RuleDiskFetcher(desc),
                    info |-> extractMachineInfoFetcher(desc)]
    /\ UNCHANGED <<today, ticks, catalog, upd, runs, fetchResp, calc, boqTable>>

NextParse ==
    \/ ParseUpdater
    \/ ParseFetcher

SpecParse == Init /\ [][NextParse]_vars

-----------------------------------------------------------------------------
(* The normalizers applied to drawn raw price-list entries *)

MaxRates == 3        \* tiered rates of a drawn raw entry

\* 0.0475 USD from 0, 0.04 USD from 100, free from 0, 1.5 USD from 50
RatePool ==
    {Rate(0, 0, 47500000), Rate(100, 0, 40000000), Rate(0, 0, 0),
     Rate(50, 1, 500000000)}

\* the lists of at most n tiered rates, in any order
RECURSIVE RateLists(_)
RateLists(n) ==
    IF n = 0 THEN {<<>>}
    ELSE LET shorter == RateLists(n - 1)
         IN  shorter \cup
             {Append1(l, r) : l \in {q \in shorter : Len(q) = n - 1},
                              r \in RatePool}

\* raw entries of one instance SKU: with each list of rates, and without
\* pricingInfo
DrawnSkus ==
    LET desc == Desc({"instance", "core"}, <<>>, 0, 0, NULL)
    IN  {RawSku("sku-core", desc, <<"us-central1">>, rates) :
            rates \in RateLists(MaxRates)}
        \cup {[RawSku("sku-core", desc, <<"us-central1">>, <<>>)
                  EXCEPT !.pricingInfo = <<>>]}

\* extractPricingInfo of pricing-updater applied to a raw entry
NormalizeUpdater ==
    /\ fn.op = "none"
    /\ \E sku \in DrawnSkus :
          fn' = [op |-> "extractPricingInfo", normalizer |-> "pricing-updater",
                 sku |-> sku,
                 result |-> extractPricingInfo(sku, "Compute Engine", today)]
    /\ UNCHANGED <<today, ticks, catalog, upd, runs, fetchResp, calc, boqTable>>

\* extractPricingInfo of pricing-fetcher applied to a raw entry
NormalizeFetcher ==
    /\ fn.op = "none"
    /\ \E sku \in DrawnSkus :
          fn' = [op |-> "extractPricingInfo", normalizer |-> "pricing-fetcher",
                 sku |-> sku,
                 result |-> extractPricingInfoFetcher(sku, today)]
    /\ UNCHANGED <<today, ticks, catalog, upd, runs, fetchResp, calc, boqTable>>

NextNormalize ==
    \/ NormalizeUpdater
    \/ NormalizeFetcher

SpecNormalize == Init /\ [][NextNormalize]_vars

-----------------------------------------------------------------------------
(* The discount engine and the totals, applied to drawn inputs *)

MaxHours == 760      \* usage_duration_hours are drawn from 0..MaxHours
MaxCostSteps == 2    \* a drawn cost is 0..MaxCostSteps times CostStep

CostStep == 500000   \* 0.05 USD

DrawnCosts == {k * CostStep : k \in 0..MaxCostSteps}

\* calculateDiscounts applied to a resource and a cost record
ApplyDiscounts ==
    /\ fn.op = "none"
    /\ \E model \in PricingModels \cup {"unknown"}, hours \in 0..MaxHours,
          pattern \in UsagePatterns, compute \in DrawnCosts, gpu \in DrawnCosts,
          storage \in {0, CostStep} :
          LET resource == [pricing_model |-> model, usage_duration_hours |-> hours,
                           usage_pattern |-> pattern]
              costs == [compute |-> compute, memory |-> 0, storage |-> storage,
                        network |-> 0, gpu |-> gpu]
          IN  fn' = [op |-> "calculateDiscounts", resource |-> resource,
                     costs |-> costs,
                     discounts |-> calculateDiscounts(resource, costs)]
    /\ UNCHANGED <<today, ticks, catalog, upd, runs, fetchResp, calc, boqTable>>

\* calculateTotals applied to a cost record and a discount record
ApplyTotals ==
    /\ fn.op = "none"
    /\ \E compute \in DrawnCosts, storage \in DrawnCosts, network \in DrawnCosts,
          gpu \in DrawnCosts, sud \in DrawnCosts, cud \in DrawnCosts,
          spot \in DrawnCosts :
          LET costs == [compute |-> compute, memory |-> 0, storage |-> storage,
                        network |-> network, gpu |-> gpu]
              discounts == [NoDiscounts EXCEPT !.sud_amount = sud,
                                               !.cud_amount = cud,
                                               !.spot_amount = spot]
          IN  fn' = [op |-> "calculateTotals", costs |-> costs,
                     discounts |-> discounts,
                     totals |-> calculateTotals(costs, discounts)]
    /\ UNCHANGED <<today, ticks, catalog, upd, runs, fetchResp, calc, boqTable>>

NextDiscount ==
    \/ ApplyDiscounts
    \/ ApplyTotals

SpecDiscount == Init /\ [][NextDiscount]_vars

-----------------------------------------------------------------------------
(* Properties of a calculation run *)

\* the resources of the run whose computation raised no exception, in the
\* order they were fetched
ComputedResources ==
    SelectSeq([i \in 1..Len(calc.resourceSpecs) |->
                  [at |-> i, resource |-> calc.resourceSpecs[i]]],
              LAMBDA e : e.at \notin calc.raisedAt)

\* the line items are those of the resources in ComputedResources
HoldsExactlyComputed(results) ==
    /\ Len(results) = Len(ComputedResources)
    /\ \A i \in 1..Len(results) :
          results[i].resource_id = ComputedResources[i].resource.resource_id

RunOver(n) == calc.pc = "done" /\ Len(calc.resourceSpecs) = n

\* C3 as stated: when computing a resource raised an exception in a run, the
\* resource is skipped and every other one is computed, resources_processed
\* counts the resources computed without exception, the results hold exactly
\* those, and the run reports success.
C3_SkippedAndStillSuccess ==
    (calc.pc = "done" /\ calc.raisedAt # {}) =>
        /\ HoldsExactlyComputed(calc.boqResults)
        /\ calc.response.success
        /\ calc.response.resources_processed = Len(ComputedResources)
        /\ HoldsExactlyComputed(calc.response.results)

\* C3 amended: the resource whose computation raised is skipped and every other
\* fetched resource is computed; unless persisting the line items fails, the
\* run reports success with resources_processed equal to the number of
\* resources computed without exception and results holding exactly those;
\* when persisting fails the run reports failure.
C3_SkippedAndSuccessUnlessSaveFails ==
    /\ (calc.pc \in {"save", "respond", "done"} /\ calc.raisedAt # {}) =>
           HoldsExactlyComputed(calc.boqResults)
    /\ (calc.pc = "done" /\ calc.raisedAt # {} /\ ~calc.saveFailed) =>
           /\ calc.response.success
           /\ calc.response.resources_processed = Len(ComputedResources)
           /\ HoldsExactlyComputed(calc.response.results)
    /\ (calc.pc = "done" /\ calc.saveFailed) => ~calc.response.success

\* a run of two resources in which the first raised and the second was
\* computed and returned
C3_Witness ==
    /\ RunOver(2)
    /\ calc.raisedAt = {1}
    /\ calc.response.success
    /\ calc.response.resources_processed = 1
    /\ calc.response.results[1].resource_id = calc.resourceSpecs[2].resource_id
    /\ Len(boqTable) = 1

ValidResource(resource) ==
    /\ resource.machine_type # <<>>
    /\ ~AdditionalDisksRaise(resource)

\* C9: a run over two fetched resources, one valid and one without
\* machine_type, returns success: true with resources_processed equal to 1.
C9_MissingMachineTypeIsSkipped ==
    (/\ RunOver(2)
     /\ ~calc.saveFailed
     /\ \E i, j \in 1..2 :
           /\ i # j
           /\ ValidResource(calc.resourceSpecs[i])
           /\ calc.resourceSpecs[j].machine_type = <<>>
           /\ ~AdditionalDisksRaise(calc.resourceSpecs[j]))
    => /\ calc.response.success
       /\ calc.response.resources_processed = 1

\* C12: for a resource with gpu_count > 0 whose gpu_type has no matching active
\* catalog entry, the resolver takes the GPU unit price from a fixed per-type
\* fallback table, as it does for storage; a price of the table is a price
\* the resolver assigned, above the 0 the pricing record starts with.
C12_GpuFallbackTable ==
    (/\ fn.op = "fetchPricingForResource"
     /\ fn.resource.gpu_count > 0
     /\ fn.result.gpu_row = 0
     /\ fn.result.storage_row = 0)
    => /\ fn.result.pricing.storage_price_per_gb_month =
              getDefaultStoragePricing(fn.resource.disk_type)
       /\ fn.result.pricing.gpu_price_per_hour > NoPricing.gpu_price_per_hour

\* C13: the resolver resolves the components independently: when the compute
\* lookup found a catalog match the returned compute price is that catalog
\* price, also when the later storage or GPU lookup finds no match or fails;
\* likewise the storage price of a storage match, whatever the GPU lookup does.
C13_ComponentsIndependent ==
    fn.op = "fetchPricingForResource" =>
        /\ fn.result.compute_row > 0 =>
               fn.result.pricing.compute_price_per_hour =
                   catalog[fn.result.compute_row].price_per_unit
        /\ fn.result.storage_row > 0 =>
               fn.result.pricing.storage_price_per_gb_month =
                   catalog[fn.result.storage_row].price_per_unit

\* the line items of the current run that the results table holds
PersistedOfRun == SelectSeq(boqTable, LAMBDA item : item.boq_id = calc.boqId)

\* C14: if persisting the computed line items fails the run ends in failure:
\* it returns neither success: true nor a boq_id nor results, and a run that
\* does return success returns only line items that were persisted.
C14_SaveFailureFailsRun ==
    /\ calc.saveFailed =>
           /\ calc.pc = "done"
           /\ calc.response.status = 500
           /\ ~calc.response.success
           /\ "boq_id" \notin DOMAIN calc.response
           /\ "results" \notin DOMAIN calc.response
    /\ (calc.pc = "done" /\ calc.response.success) =>
           calc.response.results = PersistedOfRun

\* C14 witness: two line items were computed, the insert failed, and the run
\* answered 500 with nothing persisted
C14_Witness ==
    /\ calc.saveFailed
    /\ Len(calc.boqResults) = 2
    /\ calc.response.status = 500
    /\ PersistedOfRun = <<>>

\* C15: when the resource fetch returns no specification the run ends with a
\* not-found outcome, which is neither success nor the outcome (500) of a
\* failed fetch or a failed insert; it computes no line item and persists
\* nothing.
C15_EmptyFetchIsNotFound ==
    /\ calc.fetchOutcome = "empty" =>
           /\ calc.pc = "done"
           /\ calc.response.status = 404
           /\ ~calc.response.success
           /\ calc.boqResults = <<>>
           /\ calc.inserts = 0
           /\ PersistedOfRun = <<>>
    /\ (calc.pc = "done" /\ calc.fetchOutcome # "empty") =>
           calc.response.status \in {200, 500}
    /\ (calc.fetchOutcome = "failed" \/ calc.saveFailed) =>
           calc.response.status = 500

\* C15 witness: a run whose fetch returned no row, answered 404
C15_Witness ==
    /\ calc.pc = "done"
    /\ calc.fetchOutcome = "empty"
    /\ calc.resourceSpecs = <<>>
    /\ calc.response = [status |-> 404, success |-> FALSE]

\* every line item of the run carries the identifier generated for the run,
\* the table holds for the run exactly the computed line items, and they were
\* written by one insert (none when nothing was computed)
OneBatchOneRunId ==
    /\ \A i \in 1..Len(calc.boqResults) : calc.boqResults[i].boq_id = calc.boqId
    /\ PersistedOfRun = calc.boqResults
    /\ calc.inserts = IF calc.boqResults = <<>> THEN 0 ELSE 1
    /\ calc.response.success =>
           /\ calc.response.boq_id = calc.boqId
           /\ calc.response.results = calc.boqResults

C30_AllFailedStillSuccess ==
    (/\ calc.pc = "done"
     /\ calc.fetchOutcome = "rows"
     /\ Len(calc.resourceSpecs) >= 1
     /\ calc.raisedAt = 1..Len(calc.resourceSpecs))
    => /\ calc.inserts = 0
       /\ ~calc.saveFailed
       /\ PersistedOfRun = <<>>
       /\ calc.response.status = 200
       /\ calc.response.success
       /\ calc.response.resources_processed = 0
       /\ calc.response.results = <<>>
       /\ DOMAIN calc.response.summary = {}

\* C30 witness: a run fetched two resources, computing each raised, and the
\* run has answered with success
C30_Witness ==
    /\ RunOver(2)
    /\ calc.fetchOutcome = "rows"
    /\ calc.raisedAt = {1, 2}
    /\ calc.response.success
    /\ calc.response.resources_processed = 0
    /\ boqTable = <<>>

\* the price of the fixed fallback table: 0.17, 0.10 and 0.04 USD per GB-month
C29_TablePrice(diskType) ==
    IF diskType = "pd-ssd" THEN 17000
    ELSE IF diskType = "pd-balanced" THEN 10000 ELSE 4000

\* C29: the additional disks of a resource are priced from the fixed fallback
\* table only (never from the catalog) and reported in
\* additional_storage_costs; the line item's storage_cost_usd is the cost of
\* the primary disk alone, its subtotal_usd the sum of its five cost
\* components and its total_cost_usd the subtotal less the discounts, and the
\* summary totals are the sums of the line items' totals: none includes the
\* additional disks.
C29_AdditionalDisksApart ==
    /\ \A i \in 1..Len(calc.boqResults) :
          LET item == calc.boqResults[i]
              r == CHOOSE x \in Range(calc.resourceSpecs) :
                       x.resource_id = item.resource_id
              extra == item.additional_storage_costs
          IN  /\ Len(extra) = Len(r.additional_disks.disks)
              /\ \A d \in 1..Len(extra) :
                    /\ extra[d].disk_type = r.additional_disks.disks[d].disk_type
                    /\ extra[d].size_gb = r.additional_disks.disks[d].size_gb
                    /\ extra[d].price_per_gb_month =
                           C29_TablePrice(extra[d].disk_type)
                    /\ extra[d].cost_usd =
                           ((C29_TablePrice(extra[d].disk_type) * extra[d].size_gb
                             * r.usage_duration_hours) \div 730) * 100
              /\ item.storage_cost_usd =
                     ((item.storage_price_per_gb_month * r.disk_size_gb
                       * r.usage_duration_hours) \div 730) * 100
              /\ item.subtotal_usd =
                     item.compute_cost_usd + item.memory_cost_usd
                     + item.storage_cost_usd + item.network_cost_usd
                     + item.gpu_cost_usd
              /\ item.total_cost_usd =
                     Max(0, item.subtotal_usd - item.total_discount_usd)
    /\ (calc.pc = "done" /\ calc.response.success /\ calc.boqResults # <<>>) =>
          /\ calc.response.results = calc.boqResults
          /\ calc.response.summary.total_cost_usd =
                 SeqSum([i \in 1..Len(calc.boqResults) |->
                            calc.boqResults[i].total_cost_usd])

\* C29 witness: a run has answered with the line item of a resource with two
\* additional disks; the catalog prices pd-standard at 0.042 USD, which is the
\* price of the primary disk, while the additional pd-standard disk is priced
\* at 0.04 USD
C29_Witness ==
    /\ calc.pc = "done"
    /\ calc.response.success
    /\ \E i \in 1..Len(calc.response.results) :
          LET item == calc.response.results[i] IN
          /\ Len(item.additional_storage_costs) = 2
          /\ item.storage_price_per_gb_month = 4200
          /\ item.additional_storage_costs[2].disk_type = "pd-standard"
          /\ item.additional_storage_costs[2].price_per_gb_month = 4000
          /\ item.additional_storage_costs[2].cost_usd > 0
          /\ item.total_cost_usd > 0

\* the sum of the amounts of a map
RECURSIVE MapSum(_)
MapSum(map) ==
    IF DOMAIN map = {} THEN 0
    ELSE LET k == CHOOSE x \in DOMAIN map : TRUE
         IN  map[k] + MapSum([x \in DOMAIN map \ {k} |-> map[x]])

\* summary is the summary of the line items of the resources computed
\* without exception
SummaryOverComputed(summary) ==
    LET items == calc.boqResults IN
    /\ HoldsExactlyComputed(items)
    /\ {"total_resources", "total_cost_usd", "total_discount_usd",
        "cost_by_project", "cost_by_region"} \subseteq DOMAIN summary
    /\ summary.total_resources = Len(ComputedResources)
    /\ summary.total_cost_usd =
           SeqSum([i \in 1..Len(items) |-> items[i].total_cost_usd])
    /\ summary.total_discount_usd =
           SeqSum([i \in 1..Len(items) |-> items[i].total_discount_usd])
    /\ MapSum(summary.cost_by_project) = summary.total_cost_usd
    /\ MapSum(summary.cost_by_region) = summary.total_cost_usd

\* C17 as stated: the run summary is computed only over the successfully
\* processed line items: total_resources is their count, total_cost_usd and
\* total_discount_usd are the sums of theirs, and the amounts of
\* cost_by_project and those of cost_by_region each add up to total_cost_usd.
C17_SummaryOverProcessed ==
    (calc.pc = "done" /\ calc.response.success) =>
        SummaryOverComputed(calc.response.summary)

\* C17 amended: the same whenever at least one line item was successfully
\* processed; when none was, the summary is an object without any field.
C17_SummaryOverProcessedOrEmpty ==
    (calc.pc = "done" /\ calc.response.success) =>
        IF calc.boqResults # <<>>
        THEN SummaryOverComputed(calc.response.summary)
        ELSE DOMAIN calc.response.summary = {}

\* C17 witness: of two fetched resources of one project the first raised; the
\* summary counts and totals the second only
C17_Witness ==
    /\ RunOver(2)
    /\ calc.response.success
    /\ calc.raisedAt = {1}
    /\ calc.resourceSpecs[1].project_id = calc.resourceSpecs[2].project_id
    /\ calc.response.summary.total_resources = 1
    /\ calc.response.summary.total_cost_usd = calc.boqResults[1].total_cost_usd
    /\ calc.response.summary.total_cost_usd > 0

\* a summary of two line items of one project, whose amount in
\* cost_by_project is the sum of the two
C17_WitnessSameProject ==
    /\ RunOver(2)
    /\ calc.response.success
    /\ Len(calc.boqResults) = 2
    /\ DOMAIN calc.response.summary.cost_by_project = {"proj-b"}
    /\ calc.response.summary.cost_by_project["proj-b"] =
           calc.boqResults[1].total_cost_usd + calc.boqResults[2].total_cost_usd

-----------------------------------------------------------------------------
(* Properties of the normalizers *)

\* the tiered rates of a raw entry (none when it has no pricingInfo)
RawRates(sku) ==
    IF sku.pricingInfo = <<>> THEN <<>> ELSE sku.pricingInfo[1].tieredRates

\* units + nanos / 1e9 of a raw rate, in price units
C22_PriceOf(rate) ==
    rate.unitPrice.units * 100000 + rate.unitPrice.nanos \div 10000

\* C22: normalizing a raw entry returns null whenever the entry has no usable
\* price tier or its price resolves to zero; neither extractPricingInfo
\* produces a catalog entry with price_per_unit = 0.
C22_ZeroPriceDropped ==
    fn.op = "extractPricingInfo" =>
        /\ RawRates(fn.sku) = <<>> => fn.result = NoRow
        /\ (RawRates(fn.sku) # <<>> /\ C22_PriceOf(RawRates(fn.sku)[1]) = 0) =>
               fn.result = NoRow
        /\ fn.result # NoRow => fn.result[1].price_per_unit # 0

\* C23: when a raw entry has several tiered rates, in whatever order the feed
\* lists them, the entry normalized by pricing-updater retains all of them in
\* ascending start_usage_amount order and its price_per_unit is the price of
\* the first tier.
C23_TiersAscending ==
    (/\ fn.op = "extractPricingInfo"
     /\ fn.normalizer = "pricing-updater"
     /\ Len(RawRates(fn.sku)) > 1
     /\ fn.result # NoRow)
    => LET tiers == fn.result[1].tiered_rates
           rates == RawRates(fn.sku)
       IN  /\ Len(tiers) = Len(rates)
           /\ \A r \in Range(rates) :
                 Cardinality({i \in 1..Len(rates) : rates[i] = r}) =
                 Cardinality({i \in 1..Len(tiers) :
                                 /\ tiers[i].start_usage_amount = r.startUsageAmount
                                 /\ tiers[i].price_per_unit = C22_PriceOf(r)})
           /\ \A i \in 1..(Len(tiers) - 1) :
                 tiers[i].start_usage_amount <= tiers[i + 1].start_usage_amount
           /\ fn.result[1].price_per_unit = tiers[1].price_per_unit

-----------------------------------------------------------------------------
(* Properties of the description parsers *)

\* the fields assigned by the first n rules
RECURSIVE ExtractedBy(_, _)
ExtractedBy(patches, n) ==
    IF n = 0 THEN {} ELSE ExtractedBy(patches, n - 1) \cup DOMAIN patches[n]

\* C24: in either description parser, for every description, a later rule may
\* change the category but never changes a field that an earlier rule already
\* extracted (family, type, vCPU, memory, disk type, GPU type, usage type,
\* commitment term, network tier).
C24_ExtractedFieldsKept ==
    fn.op = "extractMachineInfo" =>
        \A n \in 1..Len(fn.patches) :
            \A f \in (DOMAIN fn.patches[n] \cap ExtractedBy(fn.patches, n - 1))
                     \ {"category"} :
                fn.patches[n][f] = InfoAfter(fn.patches, n - 1)[f]

\* the disk type of the disk rule as the claim states it
C25_DiskType(kw) ==
    IF "ssd" \in kw THEN "pd-ssd"
    ELSE IF "balanced" \in kw THEN "pd-balanced"
    ELSE IF "standard" \in kw /\ ("disk" \in kw \/ "storage" \in kw)
    THEN "pd-standard"
    ELSE NULL

\* C25: each description parser applies the disk rule: 'ssd' gives pd-ssd,
\* otherwise 'balanced' gives pd-balanced, otherwise 'standard' gives
\* pd-standard only with 'disk' or 'storage'; each match sets category
\* storage; 'standard' alone gives no disk type and no storage category.
C25_DiskRule ==
    fn.op = "extractMachineInfo" =>
        IF C25_DiskType(fn.desc.kw) # NULL
        THEN /\ DOMAIN fn.disk = {"diskType", "category"}
             /\ fn.disk.diskType = C25_DiskType(fn.desc.kw)
             /\ fn.disk.category = "storage"
             /\ fn.info.diskType = C25_DiskType(fn.desc.kw)
        ELSE /\ DOMAIN fn.disk = {}
             /\ fn.info.diskType = NULL
             /\ fn.info.category # "storage"

-----------------------------------------------------------------------------
(* Properties of the discount engine and the totals *)

\* C4: calculateTotals returns total_cost = max(0, subtotal - total_discount),
\* subtotal being the sum of the five costs and total_discount the sum of the
\* three discount amounts; total_cost is never negative.
C4_TotalCostFloorAtZero ==
    fn.op = "calculateTotals" =>
        LET subtotal == fn.costs.compute + fn.costs.memory + fn.costs.storage
                        + fn.costs.network + fn.costs.gpu
            discount == fn.discounts.sud_amount + fn.discounts.cud_amount
                        + fn.discounts.spot_amount
        IN  /\ fn.totals.subtotal = subtotal
            /\ fn.totals.total_discount = discount
            /\ fn.totals.total_cost =
                   (IF subtotal - discount > 0 THEN subtotal - discount ELSE 0)
            /\ fn.totals.total_cost >= 0

\* C4 witness: the total discount exceeds the subtotal and total_cost is 0.
C4_Witness ==
    /\ fn.op = "calculateTotals"
    /\ fn.totals.total_discount > fn.totals.subtotal
    /\ fn.totals.subtotal > 0
    /\ fn.totals.total_cost = 0

\* the sustained-use percent of the rule table
C5_SudPercent(hours, pattern) ==
    IF hours > 183 /\ pattern = "continuous"
    THEN (IF ((hours - 183) \div 73) * 5 < 30 THEN ((hours - 183) \div 73) * 5 ELSE 30)
    ELSE 0

\* C5: for the supported pricing models calculateDiscounts equals the rule
\* table: spot percent 60 for spot and preemptible (else 0); committed-use
\* percent 25 for cud-1-year and 37 for cud-3-year (else 0); for on-demand the
\* sustained-use percent min(30, floor((hours - 183) / 73) * 5) when hours > 183
\* and the pattern is continuous, else 0 (so 0 up to 183 hours); each amount is
\* its percent of compute cost + GPU cost, whatever the storage cost.
C5_DiscountRuleTable ==
    (fn.op = "calculateDiscounts" /\ fn.resource.pricing_model \in PricingModels) =>
        LET r == fn.resource
            d == fn.discounts
            base == fn.costs.compute + fn.costs.gpu
        IN  /\ d.spot_percent =
                   (IF r.pricing_model \in {"spot", "preemptible"} THEN 60 ELSE 0)
            /\ d.cud_percent =
                   (IF r.pricing_model = "cud-1-year" THEN 25
                    ELSE IF r.pricing_model = "cud-3-year" THEN 37 ELSE 0)
            /\ r.pricing_model = "on-demand" =>
                   d.sud_percent =
                       C5_SudPercent(r.usage_duration_hours, r.usage_pattern)
            /\ (r.pricing_model = "on-demand" /\ r.usage_duration_hours <= 183) =>
                   d.sud_percent = 0
            /\ d.spot_amount * 100 = base * d.spot_percent
            /\ d.cud_amount * 100 = base * d.cud_percent
            /\ d.sud_amount * 100 = base * d.sud_percent

\* C5 witness: an on-demand, continuous resource between two steps of the
\* ladder (400 hours: 10 percent) with a storage cost and a non-zero amount.
C5_Witness ==
    /\ fn.op = "calculateDiscounts"
    /\ fn.resource.pricing_model = "on-demand"
    /\ fn.resource.usage_pattern = "continuous"
    /\ fn.resource.usage_duration_hours = 400
    /\ fn.costs.storage > 0
    /\ fn.discounts.sud_percent = 10
    /\ fn.discounts.sud_amount > 0

\* C26: for an on-demand resource with usage_pattern continuous the
\* sustained-use percent of calculateDiscounts is non-decreasing in
\* usage_duration_hours (no fewer hours give a larger percent), never exceeds
\* 30, and equals 30 for every usage_duration_hours >= 183 + 73 * 6 = 621.
C26_SudMonotoneAndCapped ==
    (/\ fn.op = "calculateDiscounts"
     /\ fn.resource.pricing_model = "on-demand"
     /\ fn.resource.usage_pattern = "continuous")
    => /\ \A fewer \in 0..fn.resource.usage_duration_hours :
             calculateDiscounts(
                 [fn.resource EXCEPT !.usage_duration_hours = fewer],
                 fn.costs).sud_percent <= fn.discounts.sud_percent
       /\ fn.discounts.sud_percent <= 30
       /\ fn.resource.usage_duration_hours >= 183 + 73 * 6 =>
              fn.discounts.sud_percent = 30

\* C26 witness: an on-demand, continuous resource above 621 hours, at the cap,
\* with a discounted amount.
C26_Witness ==
    /\ fn.op = "calculateDiscounts"
    /\ fn.resource.pricing_model = "on-demand"
    /\ fn.resource.usage_pattern = "continuous"
    /\ fn.resource.usage_duration_hours = 183 + 73 * 7 + 1
    /\ fn.discounts.sud_percent = 30
    /\ fn.discounts.sud_amount > 0

\* the number of discount families with a non-zero percent
NonZeroFamilies(d) ==
    (IF d.sud_percent # 0 THEN 1 ELSE 0) + (IF d.cud_percent # 0 THEN 1 ELSE 0)
    + (IF d.spot_percent # 0 THEN 1 ELSE 0)

\* C10 as stated: for every supported pricing model and every resource,
\* calculateDiscounts returns exactly one discount family with a non-zero value.
C10_ExactlyOneFamily ==
    (fn.op = "calculateDiscounts" /\ fn.resource.pricing_model \in PricingModels) =>
        NonZeroFamilies(fn.discounts) = 1

\* C10 amended: for every supported pricing model calculateDiscounts returns
\* at most one discount family with a non-zero percent: exactly one for spot,
\* preemptible, cud-1-year and cud-3-year; for on-demand exactly one
\* (sustained-use) when the usage pattern is continuous and
\* usage_duration_hours >= 256, and none otherwise.
C10_AtMostOneFamily ==
    (fn.op = "calculateDiscounts" /\ fn.resource.pricing_model \in PricingModels) =>
        LET r == fn.resource
            n == NonZeroFamilies(fn.discounts)
        IN  /\ n <= 1
            /\ r.pricing_model # "on-demand" => n = 1
            /\ r.pricing_model = "on-demand" =>
                   (n = 1 <=> (r.usage_pattern = "continuous"
                               /\ r.usage_duration_hours >= 256))
            /\ (r.pricing_model = "on-demand" /\ n = 1) =>
                   fn.discounts.sud_percent # 0

\* C10 witness: an on-demand, continuous resource of 255 hours, past the
\* threshold of 183 hours, is returned no non-zero family.
C10_Witness ==
    /\ fn.op = "calculateDiscounts"
    /\ fn.resource.pricing_model = "on-demand"
    /\ fn.resource.usage_pattern = "continuous"
    /\ fn.resource.usage_duration_hours = 255
    /\ NonZeroFamilies(fn.discounts) = 0

\* C11 as stated: whatever the pricing_model, at most one of the committed-use
\* percent and the spot percent is non-zero, and the sustained-use percent is
\* non-zero only when pricing_model is 'on-demand'.
C11_SudOnlyOnDemand ==
    fn.op = "calculateDiscounts" =>
        /\ ~(fn.discounts.cud_percent # 0 /\ fn.discounts.spot_percent # 0)
        /\ fn.discounts.sud_percent # 0 => fn.resource.pricing_model = "on-demand"

\* C11 amended: whatever the pricing_model, at most one of the committed-use
\* percent and the spot percent is non-zero, and the sustained-use percent is
\* non-zero only when pricing_model is none of spot, preemptible, cud-1-year
\* and cud-3-year, that is 'on-demand' or a value the switch does not list,
\* which takes the on-demand branch.
C11_SudOnlyOnDefaultBranch ==
    fn.op = "calculateDiscounts" =>
        /\ ~(fn.discounts.cud_percent # 0 /\ fn.discounts.spot_percent # 0)
        /\ fn.discounts.sud_percent # 0 =>
               fn.resource.pricing_model \notin
                   {"spot", "preemptible", "cud-1-year", "cud-3-year"}
        /\ fn.discounts.sud_percent # 0 =>
               (fn.discounts.cud_percent = 0 /\ fn.discounts.spot_percent = 0)

\* C11 witness: a pricing_model the switch does not list, a month of
\* continuous use, and the sustained-use percent of the on-demand branch
C11_Witness ==
    /\ fn.op = "calculateDiscounts"
    /\ fn.resource.pricing_model = "unknown"
    /\ fn.resource.usage_duration_hours = HoursPerMonth
    /\ fn.discounts.sud_percent = SudMaxPercent
    /\ fn.discounts.cud_percent = 0
    /\ fn.discounts.spot_percent = 0

-----------------------------------------------------------------------------
(* Properties of the price resolver *)

\* C2: fetchPricingForResource returns a pricing record (a compute and a
\* storage unit price above zero, a GPU unit price of zero or more) and raises
\* no error, for every resource and catalog: also when no row matches, when a
\* query fails and when machine_type is missing.
C2_ResolverNeverRaises ==
    fn.op = "fetchPricingForResource" =>
        /\ ~fn.result.raised
        /\ fn.result.pricing.compute_price_per_hour > 0
        /\ fn.result.pricing.storage_price_per_gb_month > 0
        /\ fn.result.pricing.gpu_price_per_hour >= 0

\* C2 witness: a resource without machine_type is returned the estimate
\* 2 * 0.0475 + 7.5 * 0.0063 while the catalog holds rows.
C2_Witness ==
    /\ fn.op = "fetchPricingForResource"
    /\ fn.resource.machine_type = <<>>
    /\ catalog # <<>>
    /\ ~fn.result.raised
    /\ fn.result.pricing.compute_price_per_hour = 14225

\* C27: when no active catalog entry matches the compute lookup, the compute
\* unit price is vcpu_count * 0.0475 + memory_gb * 0.0063 and the compute cost
\* is that price times usage_duration_hours; for the resource n1-standard-2,
\* 2 vCPU, 7.5 GB, 730 h, continuous, on-demand, pd-standard 100 GB the compute
\* cost is (2 * 0.0475 + 7.5 * 0.0063) * 730 = 103.8425 USD, the sustained-use
\* percent is 30 and total_cost is strictly below subtotal.
C27_EstimateWhenNoMatch ==
    (/\ fn.op = "fetchPricingForResource"
     /\ fn.resource.machine_type # <<>>
     /\ ComputeMatches(catalog, fn.resource) = {})
    => LET r == fn.resource
           pricing == fn.result.pricing
           costs == calculateBaseCosts(r, pricing)
           discounts == calculateDiscounts(r, costs)
           totals == calculateTotals(costs, discounts)
       IN  /\ pricing.compute_price_per_hour =
                  r.vcpu_count * 4750 + r.memory_gb * 63
           /\ r.gpu_count = 0 =>
                  costs.compute = (r.vcpu_count * 4750 + r.memory_gb * 63)
                                  * r.usage_duration_hours * 100
           /\ r = BaseResource =>
                  /\ costs.compute = 1038425000
                  /\ discounts.sud_percent = 30
                  /\ totals.total_cost < totals.subtotal

\* C27 witness: the resource of the example resolved against a catalog whose
\* rows do not match its compute lookup, no query failing.
C27_Witness ==
    /\ fn.op = "fetchPricingForResource"
    /\ fn.resource = BaseResource
    /\ catalog # <<>>
    /\ ComputeMatches(catalog, fn.resource) = {}
    /\ fn.fail = "none"
    /\ fn.result.compute_row = 0
    /\ fn.result.pricing.compute_price_per_hour = 14225

\* the usage type of a pricing model, as the claim lists it
C8_UsageType(model) ==
    IF model = "on-demand" THEN "OnDemand"
    ELSE IF model \in {"spot", "preemptible"} THEN "Preemptible"
    ELSE "Committed"

\* the rows the claim lets the compute lookup choose from
C8_Candidate(row, r) ==
    /\ row.is_active
    /\ row.category = "compute"
    /\ row.usage_type = C8_UsageType(r.pricing_model)
    /\ row.machine_type = r.machine_type \/ row.machine_family = r.machine_type[1]
    /\ row.region = r.region \/ row.region = NULL

\* C8: the row the compute lookup returns is active, of category compute, of
\* the usage type mapped from the pricing model, matches the machine type or
\* its family, and has the resource's region or none; no other such row has
\* the exact machine type unless the chosen row has it, and no other such row
\* equal on that has the exact region unless the chosen row has it.
C8_ComputeLookupChoice ==
    (fn.op = "fetchPricingForResource" /\ fn.result.compute_row > 0) =>
        LET r == fn.resource
            e == catalog[fn.result.compute_row]
            exact(row) == row.machine_type = r.machine_type
            inRegion(row) == row.region = r.region
        IN  /\ C8_Candidate(e, r)
            /\ \A j \in 1..Len(catalog) :
                  C8_Candidate(catalog[j], r) =>
                      /\ exact(catalog[j]) => exact(e)
                      /\ (exact(catalog[j]) = exact(e) /\ inRegion(catalog[j]))
                             => inRegion(e)

\* C8 witness: the lookup chose a row of the exact machine type and no region
\* over a family-only row of the resource's region.
C8_Witness ==
    /\ fn.op = "fetchPricingForResource"
    /\ fn.result.compute_row > 0
    /\ LET r == fn.resource
           e == catalog[fn.result.compute_row]
       IN  /\ e.machine_type = r.machine_type
           /\ e.region = NULL
           /\ \E j \in 1..Len(catalog) :
                 /\ C8_Candidate(catalog[j], r)
                 /\ catalog[j].machine_type # r.machine_type
                 /\ catalog[j].region = r.region

-----------------------------------------------------------------------------
(* Properties of the catalog's lifecycle *)

SameSkuRegion(r1, r2) == r1.sku_id = r2.sku_id /\ r1.region = r2.region

\* C1: in every state reached by refreshes and fetcher saves, the catalog
\* holds at most one active row for each (sku_id, region) pair.
C1_AtMostOneActivePerSkuRegion ==
    \A i, j \in 1..Len(catalog) :
        (i # j /\ catalog[i].is_active /\ catalog[j].is_active)
            => ~SameSkuRegion(catalog[i], catalog[j])

\* C6: a refresh that has ended ended in failure exactly when its insert step
\* failed; after a failed mark-inactive step the insert step (when there are
\* rows to insert) and the purge step still run and the refresh ends in
\* success unless the insert fails; a failed purge step leaves the outcome
\* success.
C6_RefreshFailurePolicy ==
    upd.pc = "done" =>
        /\ upd.outcome \in {"success", "failure"}
        /\ upd.outcome = "failure" <=> upd.insertFailed
        /\ (upd.markFailed /\ upd.allPricingData # <<>>) => "insert" \in upd.ran
        /\ (upd.markFailed /\ ~upd.insertFailed) => "cleanup" \in upd.ran
        /\ upd.cleanupFailed => upd.outcome = "success"
        /\ upd.insertFailed => "cleanup" \notin upd.ran

\* C6 witness: a refresh whose mark-inactive and purge steps both failed has
\* inserted its rows and ended in success.
C6_Witness ==
    /\ upd.pc = "done"
    /\ upd.markFailed
    /\ upd.cleanupFailed
    /\ "insert" \in upd.ran
    /\ upd.outcome = "success"
    /\ catalog # <<>>

\* C18: when the raw pricing feed cannot be read during a refresh, the refresh
\* is reported upward as a failure; it does not end reporting success.
C18_FeedFailureIsReported ==
    (upd.pc = "done" /\ upd.listFailed) => upd.outcome = "failure"

\* C19: a mark-inactive step of refresh(effectiveDate) that succeeds sets
\* is_active = false on exactly the active entries whose effective_date is
\* earlier than effectiveDate, leaves every other entry unchanged and deletes
\* none; afterwards no entry of an earlier effective_date is active.
C19_MarkInactiveFrame ==
    [][ (upd.pc = "mark" /\ upd'.pc # "mark" /\ ~upd'.markFailed) =>
            /\ Len(catalog') = Len(catalog)
            /\ \A i \in 1..Len(catalog) :
                   IF /\ catalog[i].is_active
                      /\ catalog[i].effective_date < upd.effectiveDate
                   THEN catalog'[i] = [catalog[i] EXCEPT !.is_active = FALSE]
                   ELSE catalog'[i] = catalog[i]
            /\ \A i \in 1..Len(catalog') :
                   catalog'[i].effective_date < upd.effectiveDate =>
                       ~catalog'[i].is_active ]_vars

\* C19 witness: the mark-inactive step of a refresh has succeeded and the
\* entries of the earlier day, all still there, are inactive
C19_Witness ==
    /\ upd.pc \in {"insert", "cleanup"}
    /\ "mark" \in upd.ran
    /\ ~upd.markFailed
    /\ Len(catalog) = 2
    /\ \A i \in 1..2 : /\ catalog[i].effective_date < upd.effectiveDate
                        /\ ~catalog[i].is_active

\* C20: every entry inserted by a refresh carries is_active = true and an
\* effective_date equal to the effectiveDate the same refresh uses for its
\* mark-inactive step and its report, also when the clock passes midnight
\* between the start of the refresh and the normalization of the entry.
C20_InsertedStampedWithEffectiveDate ==
    ("insert" \in upd.ran /\ ~upd.insertFailed) =>
        \A i \in 1..Len(upd.allPricingData) :
            /\ upd.allPricingData[i].is_active
            /\ upd.allPricingData[i].effective_date = upd.effectiveDate
            /\ \E j \in 1..Len(catalog) : catalog[j] = upd.allPricingData[i]

\* an entry whatever its is_active
EntryOf(r) == [r EXCEPT !.is_active = TRUE]

\* the number of rows of the catalog that are the entry e
CountOf(rows, e) == Cardinality({i \in 1..Len(rows) : EntryOf(rows[i]) = e})

\* an entry that the purge with the given cutoff may remove
Purgeable(r, cutoffDate) == ~r.is_active /\ r.effective_date < cutoffDate

\* C21: the purge step of a refresh removes an entry only if it is inactive
\* and its effective_date is older than the 90-day cutoff; an active entry and
\* an inactive entry inside the retention window is never removed by any step
\* of a refresh; after a successful purge no inactive entry older than the
\* cutoff remains.
C21_PurgeOnlyInactiveAndOld ==
    [][ LET purge == upd.pc = "cleanup" /\ upd'.pc = "report"
            cutoffDate == today - 90
            entries == {EntryOf(catalog[i]) : i \in 1..Len(catalog)}
            Protected(r) == ~(purge /\ Purgeable(r, cutoffDate))
        IN  /\ \A e \in entries :
                   CountOf(catalog', e) >= CountOf(SelectSeq(catalog, Protected), e)
            /\ (purge /\ ~upd'.cleanupFailed) =>
                   \A i \in 1..Len(catalog') : ~Purgeable(catalog'[i], cutoffDate)
      ]_vars

\* C21 witness: the purge of a refresh run 91 days after the previous one has
\* removed the two inactive entries of the previous generation and kept the
\* new ones
C21_Witness ==
    /\ upd.pc = "report"
    /\ ~upd.cleanupFailed
    /\ upd.purged = 2
    /\ today = RetentionDays + 1
    /\ Len(catalog) = 2
    /\ \A i \in 1..2 : catalog[i].is_active

\* the rows of the catalog that are the given row, with the given status
RowsLike(rows, r, active) ==
    {i \in 1..Len(rows) : rows[i] = [r EXCEPT !.is_active = active]}

\* the first half of C28: no step re-activates an entry; an entry that has an
\* inactive row gains no active row and no row at all (it stays inactive
\* until it is purged).
C28_NeverReactivated ==
    [][ \A i \in 1..Len(catalog) :
           ~catalog[i].is_active =>
               /\ Cardinality(RowsLike(catalog', catalog[i], TRUE))
                      <= Cardinality(RowsLike(catalog, catalog[i], TRUE))
               /\ Cardinality(RowsLike(catalog', catalog[i], FALSE))
                      <= Cardinality(RowsLike(catalog, catalog[i], FALSE)) ]_vars

=============================================================================
